---- MODULE Spec2Model ----
(***************************************************************************)
(* The Randcast mock Controller (contract/controller.rs) as a state        *)
(* machine.  Byte strings are abstracted: a public key or partial public   *)
(* key is a natural number, 0 standing for bytes that do not deserialize   *)
(* to a curve point (the empty vector included); a signature is the pair   *)
(* (signing key, message).  Node id-addresses are the strings "0x<n>",     *)
(* written n.                                                              *)
(***************************************************************************)
EXTENDS Integers, Sequences, FiniteSets, TLC

\* ------------------------------------------------------------ constants
NODE_STAKING_AMOUNT == 50000
REWARD_PER_SIGNATURE == 50
DISQUALIFIED_NODE_PENALTY == 1000
COORDINATOR_STATE_TRIGGER_REWARD == 100
COMMITTER_REWARD_PER_SIGNATURE == 100
COMMITTER_PENALTY_PER_SIGNATURE == 1000
CHALLENGE_REWARD_PER_SIGNATURE == 300
DEFAULT_MINIMUM_THRESHOLD == 3
DEFAULT_COMMITTERS_SIZE == 3
DEFAULT_DKG_PHASE_DURATION == 30
GROUP_MAX_CAPACITY == 10
EXPECTED_GROUP_SIZE == 5
PENDING_BLOCK_AFTER_QUIT == 100
SIGNATURE_TASK_EXCLUSIVE_WINDOW == 10
SIGNATURE_REWARDS_VALIDATION_WINDOW == 50
\* Controller::new sets block_height to this value.
INITIAL_BLOCK_HEIGHT == 100

\* adapter.rs; the id address "0xadmin" is address 0
RELAY_CONFIRMATION_VALIDATION_WINDOW == 30
DEFAULT_DKG_TIMEOUT_DURATION == 40
AdminAddress == 0

\* ------------------------------------------------------------ bounds
\* Node id-addresses 0x1 .. 0x<NumNodes>.
NumNodes == 4
\* mine is not called once block_height has reached this height.
MaxBlockHeight == 200
\* request_randomness is not called once signature_count has reached this.
MaxSignatureCount == 1

\* No call is made that would take the global epoch beyond this.
MaxEpoch == 4

\* The runs stop short of a call that would leave more than this many
\* nodes inactive.
MaxInactive == 1

NodeIds == 1..NumNodes

\* The nodes of the runs that follow randomness tasks in one group.
NumSigners == 3

\* The nodes of the runs that form one large group, with the epochs and
\* the inactive nodes these runs go up to.
LargeGroupSize == 6
LargeGroupEpochs == 5
LargeGroupInactive == 2

\* The nodes of the runs that form two groups, and the last block of
\* these runs.
TwoGroupNodes == 6
MaxExclusiveHeight == 112
MaxQuitHeight == 151
NumTimeoutNodes == 5
MaxTimeoutHeight == 191
MaxRequests == 3
NumRebalanceNodes == 7
RebalanceEpochs == 10
RebalanceInactive == 1
MaxSeed == 30
MaxCount == 5
MaxRelayEpoch == 3
MaxRelays == 2
MaxAdapterHeight == 132
MaxAdapterRequests == 1
NumGroupingNodes == 3
NumRunningNodes == 1
MaxGroupingHeight == 192
MaxAggregationHeight == 132
MaxAggregationRequests == 2
\* The nodes of the runs that fill a group beyond its capacity, with the
\* epochs and the inactive nodes these runs go up to.
NumCapacityNodes == 11
CapacityEpochs == 12
CapacityInactive == 0
\* The nodes of the runs that publish to a Coordinator, the last block of
\* these runs, and the publish requests in flight at one time.
NumPublishNodes == 4
MaxPublishHeight == 193
MaxPublishRequests == 1
\* The last block of the runs in which a committer server handles requests
\* side by side, the randomness requests of these runs and the requests a
\* server handles at one time.
MaxCommitterHeight == 132
MaxCommitterTasks == 1
MaxCommitRequests == 2
\* The nodes of the runs with two ready groups, the last block of these
\* runs and their randomness requests.
NumTaskNodes == 6
MaxTaskHeight == 143
MaxTaskRequests == 4

VARIABLES
    block_height,
    epoch,
    signature_count,
    last_output,
    last_group_index,
    groups,
    nodes,
    rewards,
    pending_signature_tasks,
    verifiable_signature_rewards,
    dkg_task,
    signature_task,
    coordinators,
    result,
    observed,
    panicked,
    adapter,
    publish_requests,
    block_cache,
    group_cache,
    committer_cache,
    bls_tasks_cache,
    listeners

\* The caches and the listener tasks of the node processes, by id address.
node_vars == <<block_cache, group_cache, committer_cache, bls_tasks_cache, listeners>>

vars == <<block_height, epoch, signature_count, last_output, last_group_index,
          groups, nodes, rewards, pending_signature_tasks,
          verifiable_signature_rewards, dkg_task, signature_task,
          coordinators, result, observed, panicked, adapter,
          publish_requests, block_cache, group_cache, committer_cache, bls_tasks_cache,
          listeners>>

\* ------------------------------------------------------------ maps
Max(a, b) == IF a >= b THEN a ELSE b

Range(f) == {f[k] : k \in DOMAIN f}

EmptyMap == [k \in {} |-> 0]

MapPut(f, k, v) == [x \in DOMAIN f \cup {k} |-> IF x = k THEN v ELSE f[x]]

MapRemove(f, k) == [x \in DOMAIN f \ {k} |-> f[x]]

MapRetain(f, keep) == [x \in DOMAIN f \cap keep |-> f[x]]

\* Option<T>: None is the empty sequence, Some(x) is <<x>>.
None == <<>>

Some(x) == <<x>>

\* The length of the id-address string "0x<n>".
AddressLength(id) == IF id < 10 THEN 3 ELSE 4

\* ------------------------------------------------------------ hashing
\* DefaultHasher (SipHash with fixed keys) is a fixed function u64 -> u64.
\* It is modelled by a fixed mixing function on a small residue ring.
calculate_hash(x) == (7 * x + 5) % 31

\* The bytes of a signature, as the number that is hashed.
SignatureBytes(sig) ==
    sig.key + 3 * sig.message.block_height + 5 * sig.message.last_output

\* ------------------------------------------------------------ BLS
\* SigScheme::verify(public_key, message, signature)
SigVerify(public_key, message, sig) ==
    /\ public_key # 0
    /\ sig = [key |-> public_key, message |-> message]

\* bincode::deserialize::<G1>(bytes) succeeds
IsCurvePoint(bytes) == bytes # 0

\* ------------------------------------------------------------ threshold
\* dkg_core::primitives::minimum_threshold
minimum_threshold(n) == (n + 1) \div 2 + 1

\* ------------------------------------------------------------ selection
RECURSIVE map_to_qualified_indices(_, _)
map_to_qualified_indices(index, qualified_indices) ==
    LET max == CHOOSE m \in Range(qualified_indices) :
                   \A x \in Range(qualified_indices) : x <= m
    IN  IF index \in Range(qualified_indices)
        THEN index
        ELSE map_to_qualified_indices((index + 1) % (max + 1), qualified_indices)

RECURSIVE choose_randomly_from_indices(_, _, _)
choose_randomly_from_indices(seed, indices, count) ==
    IF count = 0 \/ indices = <<>>
    THEN <<>>
    ELSE LET hash == calculate_hash(seed)
             index == map_to_qualified_indices(hash % (Len(indices) + 1), indices)
             rest == SelectSeq(indices, LAMBDA x : x # index)
         IN  <<index>> \o choose_randomly_from_indices(hash, rest, count - 1)

\* A set as a sequence, in some order.
RECURSIVE SetToSeq(_)
SetToSeq(S) ==
    IF S = {} THEN <<>>
    ELSE LET x == CHOOSE y \in S : TRUE IN <<x>> \o SetToSeq(S \ {x})

\* members.values().map(|member| member.index).collect(): one entry per
\* member, so an index held by two members occurs twice.
MemberIndices(members) ==
    LET ids == SetToSeq(DOMAIN members)
    IN  [i \in 1..Len(ids) |-> members[ids[i]].index]

\* index_member_map: HashMap<usize, String> filled from the members in
\* iteration order; when two members hold one index, either may remain.
IndexMemberMaps(members, wanted) ==
    IF \A a, b \in DOMAIN members : members[a].index = members[b].index => a = b
    THEN {[i \in wanted |-> CHOOSE m \in DOMAIN members : members[m].index = i]}
    ELSE {f \in [wanted -> DOMAIN members] : \A i \in wanted : members[f[i]].index = i}

\* ------------------------------------------------------------ internal
\* The part of the Controller the internal functions mutate, as a record s:
\* groups, nodes, coordinators, epoch, dkg_task; panic marks an unwrap of
\* None or an unsigned underflow met on the way.

\* Coordinator::new(epoch, threshold, phase_duration) followed by start
NewCoordinator(group_epoch, threshold, start_block) ==
    [epoch |-> group_epoch,
     threshold |-> threshold,
     phase_duration |-> DEFAULT_DKG_PHASE_DURATION,
     start_block |-> start_block,
     block_height |-> start_block,
     participants |-> {},
     shares |-> EmptyMap,
     responses |-> EmptyMap,
     justifications |-> EmptyMap]

\* Coordinator::start(current_block, members): the participants of the round
CoordinatorStart(c, members) == [c EXCEPT !.participants = members]

\* Coordinator::in_phase().is_ok()
CoordinatorInPhase(c) ==
    c.block_height - c.start_block <= 3 * c.phase_duration

\* Coordinator::in_phase: 1 while shares are collected, 2 for responses,
\* 3 for justifications, and an error (here 4) once the round has ended.
CoordinatorPhase(c) ==
    LET elapsed == c.block_height - c.start_block
    IN  IF elapsed <= c.phase_duration THEN 1
        ELSE IF elapsed <= 2 * c.phase_duration THEN 2
        ELSE IF elapsed <= 3 * c.phase_duration THEN 3
        ELSE 4

\* Coordinator::mine
CoordinatorMine(c, n) == [c EXCEPT !.block_height = @ + n]

\* An event that keeps the Coordinator of the group's previous round.
EmitWithoutCoordinator(s, group_index) ==
    LET g0 == s.groups[group_index]
        g == [g0 EXCEPT !.epoch = @ + 1,
                        !.commit_cache = EmptyMap,
                        !.committers = <<>>]
    IN  [s EXCEPT !.epoch = @ + 1, !.groups[group_index] = g]

emit_group_event(s, group_index) ==
    LET g0 == s.groups[group_index]
        g == [g0 EXCEPT !.epoch = @ + 1,
                        !.commit_cache = EmptyMap,
                        !.committers = <<>>]
        task == [group_index |-> g.index,
                 epoch |-> g.epoch,
                 size |-> g.size,
                 threshold |-> g.threshold,
                 members |-> [m \in DOMAIN g.members |-> g.members[m].index],
                 assignment_block_height |-> block_height]
    IN  [s EXCEPT !.epoch = @ + 1,
                  !.groups[group_index] = g,
                  !.coordinators =
                      MapPut(@, g.index,
                             CoordinatorStart(NewCoordinator(g.epoch, g.threshold, block_height),
                                              DOMAIN g.members)),
                  !.dkg_task = Some(task),
                  !.panic = @ \/ \E m \in DOMAIN g.members : m \notin DOMAIN s.nodes]

add_group(s) ==
    LET group_index == Len(s.groups) + 1
        group == [index |-> group_index,
                  epoch |-> 0,
                  capacity |-> GROUP_MAX_CAPACITY,
                  size |-> 0,
                  threshold |-> DEFAULT_MINIMUM_THRESHOLD,
                  state |-> FALSE,
                  public_key |-> 0,
                  members |-> EmptyMap,
                  committers |-> <<>>,
                  commit_cache |-> EmptyMap]
    IN  [s EXCEPT !.groups = Append(@, group)]

\* Every group counted as valid, ready or not.
AllGroupIndices(gs) == DOMAIN gs

\* valid_group_indices, on the groups gs
ValidGroupIndicesOf(gs) == {i \in DOMAIN gs : gs[i].state}

\* The possible results (s, group_index, need_rebalance): min_by returns
\* the first minimum in the HashMap's iteration order.
find_available_group(s) ==
    IF s.groups = <<>>
    THEN {[s |-> add_group(s), group_index |-> 1, need_rebalance |-> FALSE]}
    ELSE LET min_size == CHOOSE n \in {s.groups[i].size : i \in DOMAIN s.groups} :
                             \A i \in DOMAIN s.groups : n <= s.groups[i].size
             valid_group_count == Cardinality(ValidGroupIndicesOf(s.groups))
         IN  IF /\ (valid_group_count < EXPECTED_GROUP_SIZE \/ min_size = GROUP_MAX_CAPACITY)
                /\ valid_group_count = Len(s.groups)
             THEN {[s |-> add_group(s),
                    group_index |-> Len(s.groups) + 1,
                    need_rebalance |-> TRUE]}
             ELSE {[s |-> s, group_index |-> i, need_rebalance |-> FALSE] :
                      i \in {j \in DOMAIN s.groups : s.groups[j].size = min_size}}

add_to_group(s, node_id_address, group_index, emit_event_instantly) ==
    LET g0 == s.groups[group_index]
        member == [index |-> g0.size, partial_public_key |-> 0]
        g == [g0 EXCEPT !.size = @ + 1,
                        !.members = MapPut(@, node_id_address, member),
                        !.threshold = Max(DEFAULT_MINIMUM_THRESHOLD,
                                          minimum_threshold(g0.size + 1))]
        s1 == [s EXCEPT !.groups[group_index] = g]
    IN  IF g.size >= 3 /\ emit_event_instantly
        THEN emit_group_event(s1, group_index)
        ELSE s1

\* The result (s, need_rebalance).
remove_from_group(s, node_id_address, group_index, emit_event_instantly) ==
    LET g0 == s.groups[group_index]
        g == [g0 EXCEPT !.size = @ - 1,
                        !.members = MapRemove(@, node_id_address),
                        !.threshold = Max(DEFAULT_MINIMUM_THRESHOLD,
                                          minimum_threshold(g0.size - 1))]
        s1 == [s EXCEPT !.groups[group_index] = g,
                        !.panic = @ \/ g0.size = 0]
    IN  IF g.size < 3
        THEN [s |-> [s1 EXCEPT !.groups[group_index].state = FALSE],
              need_rebalance |-> g.size > 0]
        ELSE [s |-> IF emit_event_instantly
                    THEN emit_group_event(s1, group_index)
                    ELSE s1,
              need_rebalance |-> FALSE]

\* The loop of rebalance_group over members_to_move.
RECURSIVE MoveMembers(_, _, _, _, _)
MoveMembers(s, members_to_move, index_member_map, group_a_index, group_b_index) ==
    IF members_to_move = <<>>
    THEN s
    ELSE LET id == index_member_map[Head(members_to_move)]
             removed == remove_from_group(s, id, group_a_index, FALSE).s
             added == add_to_group(removed, id, group_b_index, FALSE)
         IN  MoveMembers(added, Tail(members_to_move), index_member_map,
                         group_a_index, group_b_index)

\* The possible results (s, ok) of rebalance_group.
rebalance_group(s, group_a_index0, group_b_index0) ==
    LET swap == s.groups[group_b_index0].size > s.groups[group_a_index0].size
        group_a_index == IF swap THEN group_b_index0 ELSE group_a_index0
        group_b_index == IF swap THEN group_a_index0 ELSE group_b_index0
        group_a == s.groups[group_a_index]
        group_b == s.groups[group_b_index]
        expected_size_to_move == group_a.size - (group_a.size + group_b.size) \div 2
    IN  IF group_a.size - expected_size_to_move < DEFAULT_MINIMUM_THRESHOLD
        THEN {[s |-> s, ok |-> FALSE]}
        ELSE LET qualified_indices == MemberIndices(group_a.members)
                 members_to_move ==
                     choose_randomly_from_indices(last_output, qualified_indices,
                                                  expected_size_to_move)
             IN  {[s |-> emit_group_event(
                            emit_group_event(
                               MoveMembers(s, members_to_move, imap,
                                           group_a_index, group_b_index),
                               group_a_index),
                            group_b_index),
                   ok |-> TRUE] :
                     imap \in IndexMemberMaps(group_a.members, Range(members_to_move))}

\* group_indices.iter().try_for_each(...): the groups are tried in the
\* HashMap's key order until a rebalance returns Ok(true).  A rebalance that
\* returns false changes nothing, so the results are those of every group
\* whose rebalance succeeds; the empty set when none does.
TryRebalance(s, group_index) ==
    UNION {{o.s : o \in {r \in rebalance_group(s, i, group_index) : r.ok}} :
              i \in DOMAIN s.groups \ {group_index}}

\* emit_group_event for every involved group, in the HashSet's order.
RECURSIVE EmitEach(_, _)
EmitEach(s, involved) ==
    IF involved = {}
    THEN {s}
    ELSE UNION {EmitEach(emit_group_event(s, i), involved \ {i}) : i \in involved}

\* The evacuation loop of freeze_node over members_left_in_group, in the
\* HashMap's key order.
RECURSIVE Evacuate(_, _, _)
Evacuate(s, members_left, involved) ==
    IF members_left = {}
    THEN EmitEach(s, involved)
    ELSE UNION {UNION {Evacuate(add_to_group(f.s, m, f.group_index, FALSE),
                                members_left \ {m},
                                involved \cup {f.group_index}) :
                          f \in find_available_group(s)} :
                   m \in members_left}

\* The group handling of freeze_node for one group holding the node.
FreezeHandleGroup(s, id_address, group_index) ==
    LET removed == remove_from_group(s, id_address, group_index, TRUE)
        rebalanced == TryRebalance(removed.s, group_index)
    IN  IF ~removed.need_rebalance
        THEN {removed.s}
        ELSE IF rebalanced # {}
             THEN rebalanced
             ELSE Evacuate(removed.s,
                           DOMAIN removed.s.groups[group_index].members, {})

\* The possible results of freeze_node.
freeze_node(s, id_address, pending_block, handle_group) ==
    LET belong_to_group == {i \in DOMAIN s.groups : id_address \in DOMAIN s.groups[i].members}
        handled == IF handle_group /\ belong_to_group # {}
                   THEN UNION {FreezeHandleGroup(s, id_address, i) : i \in belong_to_group}
                   ELSE {s}
    IN  {[t EXCEPT !.nodes[id_address].state = FALSE,
                   !.nodes[id_address].pending_until_block =
                       IF @ > block_height THEN @ + pending_block
                                           ELSE block_height + pending_block] :
            t \in handled}

\* A slash that takes the stake and leaves the node as it is.
SlashWithoutFreeze(s, id_address, staking_penalty, pending_block, handle_group) ==
    IF id_address \notin DOMAIN s.nodes
    THEN {[s EXCEPT !.panic = TRUE]}
    ELSE {[s EXCEPT !.nodes[id_address].staking = @ - staking_penalty]}

\* The possible results of slash_node.
slash_node(s, id_address, staking_penalty, pending_block, handle_group) ==
    IF id_address \notin DOMAIN s.nodes
    THEN {[s EXCEPT !.panic = TRUE]}
    ELSE LET s1 == [s EXCEPT !.nodes[id_address].staking = @ - staking_penalty,
                             !.panic = @ \/ s.nodes[id_address].staking < staking_penalty]
         IN  IF s1.nodes[id_address].staking < NODE_STAKING_AMOUNT \/ pending_block > 0
             THEN freeze_node(s1, id_address, pending_block, handle_group)
             ELSE {s1}

\* The possible results of node_join.
node_join(s, id_address) ==
    UNION {LET joined == add_to_group(f.s, id_address, f.group_index, TRUE)
               rebalanced == TryRebalance(joined, f.group_index)
           IN  IF f.need_rebalance /\ rebalanced # {}
               THEN rebalanced
               ELSE {joined} :
              f \in find_available_group(s)}

\* get_strictly_majority_identical_commitment_result: the commit result
\* held by strictly more members than any other, with its members.
CommitClass(group, r) ==
    {m \in DOMAIN group.commit_cache : group.commit_cache[m].commit_result = r}

get_strictly_majority_identical_commitment_result(group) ==
    LET results == {group.commit_cache[m].commit_result : m \in DOMAIN group.commit_cache}
        top == {r \in results :
                   \A q \in results :
                       Cardinality(CommitClass(group, q)) <= Cardinality(CommitClass(group, r))}
    IN  IF Cardinality(top) = 1
        THEN LET r == CHOOSE x \in top : TRUE
             IN  [commit |-> Some(r), majority_members |-> CommitClass(group, r)]
        ELSE [commit |-> None, majority_members |-> {}]

\* ------------------------------------------------------------ adapter state
\* Adapter::new(initial_entropy, deployed_address): the Adapter is a second
\* contract with its own fields, held in one record.
NewAdapter ==
    [block_height |-> 100,
     epoch |-> 1,
     signature_count |-> 0,
     last_output |-> 6,
     last_group_index |-> 0,
     groups |-> EmptyMap,
     relayed_group_cache |-> EmptyMap,
     relayed_group_confirmation_tasks |-> EmptyMap,
     relayed_group_confirmation_count |-> 0,
     rewards |-> EmptyMap,
     pending_signature_tasks |-> EmptyMap,
     signature_task |-> None,
     group_relay_confirm_task |-> None]

\* ------------------------------------------------------------ state
\* The record s of the current state, and its installation as next state.
Current ==
    [groups |-> groups,
     nodes |-> nodes,
     coordinators |-> coordinators,
     epoch |-> epoch,
     dkg_task |-> dkg_task,
     panic |-> FALSE]

\* A call whose execution meets no panic returns.
Completes(t) == ~t.panic

Install(t) ==
    /\ groups' = t.groups
    /\ nodes' = t.nodes
    /\ coordinators' = t.coordinators
    /\ epoch' = t.epoch
    /\ dkg_task' = t.dkg_task

\* The callers record what the transactions named in observed return:
\* result is the last call when it was one of these, with its arguments and
\* return value, and NoResult after any other call.
NoResult == [op |-> "none", args |-> <<>>, ret |-> "none"]

\* A transaction writes nothing of a node process. Where node processes run,
\* the listener that made the call writes its own caches in the same step.
NodesUntouched ==
    IF DOMAIN listeners = {} THEN UNCHANGED node_vars ELSE TRUE

Returned(op, args, ret) ==
    /\ ~panicked
    /\ result' = IF op \in observed
                 THEN [op |-> op, args |-> args, ret |-> ret]
                 ELSE NoResult
    /\ observed' = observed
    /\ panicked' = panicked
    /\ adapter' = adapter
    /\ publish_requests' = publish_requests
    /\ NodesUntouched

\* A call that meets a panic (an unwrap of None, an unsigned underflow)
\* returns nothing. The Controller is not followed further: what the
\* unwinding leaves of the call's assignments is not described.
Aborted ==
    /\ ~panicked
    /\ panicked' = TRUE
    /\ result' = NoResult
    /\ observed' = observed
    /\ adapter' = adapter
    /\ publish_requests' = publish_requests
    /\ NodesUntouched
    /\ UNCHANGED <<block_height, epoch, signature_count, last_output,
                   last_group_index, groups, nodes, rewards,
                   pending_signature_tasks, verifiable_signature_rewards,
                   dkg_task, signature_task, coordinators>>

\* An Err return before any assignment.
Rejected(op, args, ret) ==
    /\ Returned(op, args, ret)
    /\ UNCHANGED <<block_height, epoch, signature_count, last_output,
                   last_group_index, groups, nodes, rewards,
                   pending_signature_tasks, verifiable_signature_rewards,
                   dkg_task, signature_task, coordinators>>

\* Controller::new(initial_entropy, controller_address)
InitialEntropy == {6}

ContractsConstructed ==
    /\ block_height = INITIAL_BLOCK_HEIGHT
    /\ epoch = 1
    /\ signature_count = 0
    /\ last_output \in InitialEntropy
    /\ last_group_index = 0
    /\ groups = <<>>
    /\ nodes = EmptyMap
    /\ rewards = EmptyMap
    /\ pending_signature_tasks = EmptyMap
    /\ verifiable_signature_rewards = EmptyMap
    /\ dkg_task = None
    /\ signature_task = None
    /\ coordinators = EmptyMap
    /\ result = NoResult
    /\ panicked = FALSE
    /\ adapter = NewAdapter
    /\ publish_requests = {}

\* The contracts with no node process running.
Constructed ==
    /\ ContractsConstructed
    /\ block_cache = EmptyMap
    /\ group_cache = EmptyMap
    /\ committer_cache = EmptyMap
    /\ bls_tasks_cache = EmptyMap
    /\ listeners = EmptyMap

Init ==
    /\ Constructed
    /\ observed = {}

\* ------------------------------------------------------------ views
valid_group_indices == ValidGroupIndicesOf(groups)

get_signature_task_completion_state(index) ==
    index < signature_count /\ index \notin DOMAIN pending_signature_tasks

\* ------------------------------------------------------------ transactions
node_register(id_address) ==
    LET args == <<id_address>>
    IN  IF id_address \in DOMAIN nodes
        THEN Rejected("node_register", args, "NodeExisted")
        ELSE LET node == [state |-> TRUE,
                          pending_until_block |-> 0,
                          staking |-> NODE_STAKING_AMOUNT]
                 s == [Current EXCEPT !.nodes = MapPut(@, id_address, node)]
             IN  \/ /\ \E t \in node_join(s, id_address) :
                           Completes(t) /\ Install(t)
                    /\ rewards' = MapPut(rewards, id_address, 0)
                    /\ Returned("node_register", args, "Ok")
                    /\ UNCHANGED <<block_height, signature_count, last_output,
                                   last_group_index, pending_signature_tasks,
                                   verifiable_signature_rewards, signature_task>>
                 \/ /\ \E t \in node_join(s, id_address) : t.panic
                    /\ Aborted

node_activate(id_address) ==
    LET args == <<id_address>>
    IN  IF id_address \notin DOMAIN nodes
        THEN Rejected("node_activate", args, "NodeNotExisted")
        ELSE IF nodes[id_address].state
        THEN Rejected("node_activate", args, "NodeActivated")
        ELSE IF nodes[id_address].pending_until_block > block_height
        THEN Rejected("node_activate", args, "NodeNotAvailable")
        ELSE LET s == [Current EXCEPT !.nodes[id_address].staking = NODE_STAKING_AMOUNT]
             IN  \/ /\ \E t \in node_join(s, id_address) :
                           Completes(t) /\ Install(t)
                    /\ Returned("node_activate", args, "Ok")
                    /\ UNCHANGED <<block_height, signature_count, last_output,
                                   last_group_index, rewards, pending_signature_tasks,
                                   verifiable_signature_rewards, signature_task>>
                 \/ /\ \E t \in node_join(s, id_address) : t.panic
                    /\ Aborted

\* A retain that drops a reward at its expiration block already.
RewardsBeforeExpiration ==
    MapRetain(verifiable_signature_rewards,
              {i \in DOMAIN verifiable_signature_rewards :
                  block_height < verifiable_signature_rewards[i].expiration_block_height})

\* check_verifiable_rewards_expiration, as the map that is kept
UnexpiredRewards ==
    MapRetain(verifiable_signature_rewards,
              {i \in DOMAIN verifiable_signature_rewards :
                  block_height <= verifiable_signature_rewards[i].expiration_block_height})

check_verifiable_rewards_expiration ==
    /\ verifiable_signature_rewards' = UnexpiredRewards
    /\ Returned("check_verifiable_rewards_expiration", <<>>, "Ok")
    /\ UNCHANGED <<block_height, epoch, signature_count, last_output,
                   last_group_index, groups, nodes, rewards,
                   pending_signature_tasks, dkg_task, signature_task,
                   coordinators>>

node_quit(id_address) ==
    LET args == <<id_address>>
    IN  IF id_address \notin DOMAIN nodes
        THEN Rejected("node_quit", args, "NodeNotExisted")
        ELSE IF \E i \in DOMAIN UnexpiredRewards : UnexpiredRewards[i].committer = id_address
        THEN /\ verifiable_signature_rewards' = UnexpiredRewards
             /\ Returned("node_quit", args, "VerifiableSignatureRewardAsCommitterExisted")
             /\ UNCHANGED <<block_height, epoch, signature_count, last_output,
                            last_group_index, groups, nodes, rewards,
                            pending_signature_tasks, dkg_task, signature_task,
                            coordinators>>
        ELSE \/ /\ \E t \in freeze_node(Current, id_address, PENDING_BLOCK_AFTER_QUIT, TRUE) :
                       Completes(t) /\ Install(t)
                /\ verifiable_signature_rewards' = UnexpiredRewards
                /\ Returned("node_quit", args, "Ok")
                /\ UNCHANGED <<block_height, signature_count, last_output,
                               last_group_index, rewards, pending_signature_tasks,
                               signature_task>>
             \/ /\ \E t \in freeze_node(Current, id_address, PENDING_BLOCK_AFTER_QUIT, TRUE) :
                       t.panic
                /\ Aborted

mine(block_number) ==
    /\ block_height' = block_height + block_number
    /\ coordinators' = [i \in DOMAIN coordinators |->
                           CoordinatorMine(coordinators[i], block_number)]
    /\ Returned("mine", <<block_number>>, "Ok")
    /\ UNCHANGED <<epoch, signature_count, last_output, last_group_index,
                   groups, nodes, rewards, pending_signature_tasks,
                   verifiable_signature_rewards, dkg_task, signature_task>>

\* A loop that slashes nobody.
SlashNone(s, ids) == {s}

\* slash_node(.., DISQUALIFIED_NODE_PENALTY, 0, false) for each entry of a
\* list, in order.
RECURSIVE SlashEach(_, _)
SlashEach(s, ids) ==
    IF ids = <<>>
    THEN {s}
    ELSE UNION {SlashEach(t, Tail(ids)) :
                   t \in slash_node(s, Head(ids), DISQUALIFIED_NODE_PENALTY, 0, FALSE)}

\* A finalization that leaves the members as they are.
MembersLeftUnwritten(group, qualified_commits) == group.members

\* The loop of the finalization over commit_cache: the members of group,
\* each one in qualified_commits with the partial public key of its cache
\* entry.
WritePartialPublicKeys(group, qualified_commits) ==
    [m \in DOMAIN group.members |->
        IF m \in qualified_commits
        THEN [group.members[m] EXCEPT !.partial_public_key =
                  group.commit_cache[m].partial_public_key]
        ELSE group.members[m]]

\* The finalization branch of commit_dkg, on the group that already holds
\* the caller's commit: the possible results.
FinalizeGroup(s, group_index, identical_commit) ==
    LET g0 == s.groups[group_index]
        disqualified_nodes == identical_commit.disqualified_nodes
        qualified_commits == DOMAIN g0.commit_cache \ Range(disqualified_nodes)
        members1 == WritePartialPublicKeys(g0, qualified_commits)
        committer_indices ==
            choose_randomly_from_indices(last_output, MemberIndices(members1),
                                         Max(DEFAULT_COMMITTERS_SIZE, g0.threshold))
        panics == \/ Len(disqualified_nodes) > g0.size
                  \/ \E m \in qualified_commits : m \notin DOMAIN g0.members
    IN  UNION {LET elected == [i \in 1..Len(committer_indices) |->
                                  index_member_map[committer_indices[i]]]
                   g == [g0 EXCEPT !.state = TRUE,
                                   !.size = @ - Len(disqualified_nodes),
                                   !.public_key = identical_commit.public_key,
                                   !.committers = @ \o elected,
                                   !.members = MapRetain(members1,
                                       DOMAIN members1 \ Range(disqualified_nodes))]
               IN  SlashEach([s EXCEPT !.groups[group_index] = g,
                                       !.panic = @ \/ panics],
                             disqualified_nodes) :
                  index_member_map \in IndexMemberMaps(members1, Range(committer_indices))}

\* A test that is content with any majority.
AnyMajority(majority_members, threshold) == majority_members # {}

\* The test of commit_dkg on the members of the majority commit.
ReachesThreshold(majority_members, threshold) ==
    Cardinality(majority_members) >= threshold

\* A store that writes the partial public key to every member.
StoreForEveryMember(s, group_index, id_address, partial_public_key) ==
    [s EXCEPT !.groups[group_index].members =
        [m \in DOMAIN @ |-> [@[m] EXCEPT !.partial_public_key = partial_public_key]]]

\* The branch of commit_dkg on a group with state = true.
StorePartialPublicKey(s, group_index, id_address, partial_public_key) ==
    [s EXCEPT !.groups[group_index].members[id_address].partial_public_key =
        partial_public_key]

commit_dkg(id_address, group_index, group_epoch, public_key, partial_public_key, disqualified_nodes) ==
    LET args == <<id_address, group_index, group_epoch, public_key,
                  partial_public_key, disqualified_nodes>>
    IN  IF group_index \notin DOMAIN groups
        THEN Rejected("commit_dkg", args, "GroupNotExisted")
        ELSE IF ~IsCurvePoint(public_key) \/ ~IsCurvePoint(partial_public_key)
        THEN Rejected("commit_dkg", args, "PublicKeyBadFormat")
        ELSE IF id_address \notin DOMAIN groups[group_index].members
        THEN Rejected("commit_dkg", args, "ParticipantNotExisted")
        ELSE IF groups[group_index].epoch # group_epoch
        THEN Rejected("commit_dkg", args, "GroupEpochObsolete")
        ELSE IF id_address \in DOMAIN groups[group_index].commit_cache
        THEN Rejected("commit_dkg", args, "CommitCacheExisted")
        ELSE
        LET commit_result == [group_epoch |-> group_epoch,
                              public_key |-> public_key,
                              disqualified_nodes |-> disqualified_nodes]
            commit_cache == [commit_result |-> commit_result,
                             partial_public_key |-> partial_public_key]
            cached == [groups[group_index] EXCEPT
                          !.commit_cache = MapPut(@, id_address, commit_cache)]
            s == [Current EXCEPT !.groups[group_index] = cached]
            majority == get_strictly_majority_identical_commitment_result(cached)
            outcomes ==
                IF cached.state
                THEN {StorePartialPublicKey(s, group_index, id_address, partial_public_key)}
                ELSE IF /\ majority.commit # None
                        /\ ReachesThreshold(majority.majority_members, cached.threshold)
                THEN FinalizeGroup(s, group_index, majority.commit[1])
                ELSE {s}
        IN  \/ /\ \E t \in outcomes : Completes(t) /\ Install(t)
               /\ Returned("commit_dkg", args, "Ok")
               /\ UNCHANGED <<block_height, signature_count, last_output,
                              last_group_index, rewards, pending_signature_tasks,
                              verifiable_signature_rewards, signature_task>>
            \/ /\ \E t \in outcomes : t.panic
               /\ Aborted

\* The orders in which a HashMap may yield the keys of a set.
Orders(S) ==
    {f \in [1..Cardinality(S) -> S] : \A i, j \in DOMAIN f : f[i] = f[j] => i = j}

\* The slashing loop of the majority branch of check_dkg_state: the node at
\* position index (from 0) is slashed with
\* handle_group = (index == disqualified_node.len() - 1).
RECURSIVE SlashDisqualified(_, _, _)
SlashDisqualified(s, disqualified_nodes, index) ==
    IF disqualified_nodes = <<>>
    THEN {s}
    ELSE LET disqualified_node == Head(disqualified_nodes)
             handle_group == index = AddressLength(disqualified_node) - 1
         IN  UNION {SlashDisqualified(t, Tail(disqualified_nodes), index + 1) :
                       t \in slash_node(s, disqualified_node,
                                        DISQUALIFIED_NODE_PENALTY, 0, handle_group)}

\* A post-process that leaves the Coordinator in place.
KeepCoordinator(s, group_index) == s

\* self.coordinators.remove(&group_index) at the end of check_dkg_state.
DropCoordinator(s, group_index) ==
    [s EXCEPT !.coordinators = MapRemove(@, group_index)]

check_dkg_state(id_address, group_index) ==
    LET args == <<id_address, group_index>>
    IN  IF group_index \notin DOMAIN groups
        THEN Rejected("check_dkg_state", args, "GroupNotExisted")
        ELSE IF groups[group_index].state
        THEN Rejected("check_dkg_state", args, "GroupActivated")
        ELSE IF group_index \notin DOMAIN coordinators
        THEN Rejected("check_dkg_state", args, "CoordinatorNotExisted")
        ELSE IF coordinators[group_index].epoch < groups[group_index].epoch
        THEN Rejected("check_dkg_state", args, "CoordinatorEpochObsolete")
        ELSE IF CoordinatorInPhase(coordinators[group_index])
        THEN Rejected("check_dkg_state", args, "CoordinatorNotEnded")
        ELSE
        LET group == groups[group_index]
            majority == get_strictly_majority_identical_commitment_result(group)
            outcomes ==
                IF majority.commit = None
                THEN SlashEach([Current EXCEPT
                                   !.groups[group_index].size = 0,
                                   !.groups[group_index].threshold = 0,
                                   !.groups[group_index].members = EmptyMap],
                               SetToSeq(DOMAIN group.members))
                ELSE LET disqualified_nodes ==
                             DOMAIN group.members \ majority.majority_members
                         kept == [Current EXCEPT
                                     !.groups[group_index].size =
                                         @ - Cardinality(disqualified_nodes),
                                     !.groups[group_index].members =
                                         MapRetain(@, DOMAIN @ \ disqualified_nodes),
                                     !.panic = Cardinality(disqualified_nodes) > group.size]
                     IN  UNION {SlashDisqualified(kept, order, 0) :
                                   order \in Orders(disqualified_nodes)}
        IN  \/ /\ \E t \in outcomes :
                      /\ Completes(t)
                      /\ Install(DropCoordinator(t, group_index))
               /\ rewards' = MapPut(rewards, id_address,
                                    (IF id_address \in DOMAIN rewards
                                     THEN rewards[id_address] ELSE 0)
                                    + COORDINATOR_STATE_TRIGGER_REWARD)
               /\ Returned("check_dkg_state", args, "Ok")
               /\ UNCHANGED <<block_height, signature_count, last_output,
                              last_group_index, pending_signature_tasks,
                              verifiable_signature_rewards, signature_task>>
            \/ /\ \E t \in outcomes : t.panic
               /\ Aborted

\* A choice of the lowest valid group index, wherever the last task went.
LowestValidGroup(assignment_group_index) ==
    CHOOSE i \in valid_group_indices : \A j \in valid_group_indices : i <= j

\* The loop of request_randomness: the first valid group index met from
\* last_group_index + 1, cyclically modulo groups.len() + 1.
RECURSIVE NextValidGroup(_)
NextValidGroup(assignment_group_index) ==
    LET next == (assignment_group_index + 1) % (Len(groups) + 1)
    IN  IF next \in valid_group_indices THEN next ELSE NextValidGroup(next)

request_randomness(message) ==
    LET args == <<message>>
    IN  IF valid_group_indices = {}
        THEN Rejected("request_randomness", args, "NoVaildGroup")
        ELSE LET assignment_group_index == NextValidGroup(last_group_index)
                 task == [index |-> signature_count,
                          message |-> [text |-> message,
                                       block_height |-> block_height,
                                       last_output |-> last_output],
                          group_index |-> assignment_group_index,
                          assignment_block_height |-> block_height]
             IN  /\ signature_count' = signature_count + 1
                 /\ signature_task' = Some(task)
                 /\ pending_signature_tasks' =
                        MapPut(pending_signature_tasks, task.index, task)
                 /\ last_group_index' = assignment_group_index
                 /\ Returned("request_randomness", args, "Ok")
                 /\ UNCHANGED <<block_height, epoch, last_output, groups, nodes,
                                rewards, verifiable_signature_rewards, dkg_task,
                                coordinators>>

\* The reward rows after crediting REWARD_PER_SIGNATURE to each of ids.
CreditMembers(rw, ids) ==
    [x \in DOMAIN rw |-> IF x \in ids THEN rw[x] + REWARD_PER_SIGNATURE ELSE rw[x]]

\* A window that closes one block early.
ExclusiveBeforeWindowEnd(task, group_index) ==
    /\ block_height < task.assignment_block_height + SIGNATURE_TASK_EXCLUSIVE_WINDOW
    /\ group_index # task.group_index

\* The exclusivity test of fulfill_randomness.
StillExclusive(task, group_index) ==
    /\ block_height <= task.assignment_block_height + SIGNATURE_TASK_EXCLUSIVE_WINDOW
    /\ group_index # task.group_index

\* An output that is not refreshed.
StaleOutput(signature) == last_output

\* The output fulfill_randomness stores.
FulfilledOutput(signature) == calculate_hash(SignatureBytes(signature))

\* A fulfilled task that is left among the pending ones.
KeepFulfilledTask(signature_index) == pending_signature_tasks

\* The pending tasks once fulfill_randomness has removed the fulfilled one.
RemoveFulfilledTask(signature_index) ==
    MapRemove(pending_signature_tasks, signature_index)

fulfill_randomness(id_address, group_index, signature_index, signature, partial_signatures) ==
    LET args == <<id_address, group_index, signature_index, signature,
                  partial_signatures>>
    IN  IF signature_index \notin DOMAIN pending_signature_tasks
        THEN Rejected("fulfill_randomness", args, "TaskNotFound")
        ELSE
        LET signature_task_ == pending_signature_tasks[signature_index]
        IN  IF StillExclusive(signature_task_, group_index)
        THEN Rejected("fulfill_randomness", args, "TaskStillExclusive")
        ELSE IF group_index \notin DOMAIN groups
        THEN Rejected("fulfill_randomness", args, "GroupNotExisted")
        ELSE IF id_address \notin Range(groups[group_index].committers)
        THEN Rejected("fulfill_randomness", args, "NotFromCommitter")
        ELSE IF ~IsCurvePoint(groups[group_index].public_key)
        THEN Rejected("fulfill_randomness", args, "PublicKeyBadFormat")
        ELSE IF ~SigVerify(groups[group_index].public_key, signature_task_.message,
                           signature)
        THEN Rejected("fulfill_randomness", args, "BLSVerifyFailed")
        ELSE IF id_address \notin DOMAIN nodes
        THEN Rejected("fulfill_randomness", args, "NodeNotExisted")
        ELSE IF \E m \in DOMAIN partial_signatures :
                    m \notin DOMAIN groups[group_index].members
        THEN Rejected("fulfill_randomness", args, "ParticipantNotExisted")
        ELSE IF id_address \notin DOMAIN rewards
        THEN Rejected("fulfill_randomness", args, "RewardRecordNotExisted")
        ELSE
        LET credited == [rewards EXCEPT ![id_address] = @ + COMMITTER_REWARD_PER_SIGNATURE]
            unknown == {m \in DOMAIN partial_signatures : m \notin DOMAIN nodes}
            rowless == {m \in DOMAIN partial_signatures : m \notin DOMAIN rewards}
            signature_reward ==
                [signature_task |-> signature_task_,
                 expiration_block_height |->
                     block_height + SIGNATURE_REWARDS_VALIDATION_WINDOW,
                 committer |-> id_address,
                 group |-> groups[group_index],
                 partial_signatures |-> partial_signatures]
        IN  IF unknown \cup rowless # {}
            THEN \* the loop returns at the first such member it meets, the
                 \* members met before it already credited
                 /\ \E done \in SUBSET (DOMAIN partial_signatures \ (unknown \cup rowless)) :
                        rewards' = CreditMembers(credited, done)
                 /\ Returned("fulfill_randomness", args,
                             IF unknown # {} THEN "NodeNotExisted"
                                             ELSE "RewardRecordNotExisted")
                 /\ UNCHANGED <<block_height, epoch, signature_count, last_output,
                                last_group_index, groups, nodes,
                                pending_signature_tasks,
                                verifiable_signature_rewards, dkg_task,
                                signature_task, coordinators>>
            ELSE /\ rewards' = CreditMembers(credited, DOMAIN partial_signatures)
                 /\ last_output' = FulfilledOutput(signature)
                 /\ verifiable_signature_rewards' =
                        MapPut(verifiable_signature_rewards, signature_index,
                               signature_reward)
                 /\ pending_signature_tasks' = RemoveFulfilledTask(signature_index)
                 /\ Returned("fulfill_randomness", args, "Ok")
                 /\ UNCHANGED <<block_height, epoch, signature_count,
                                last_group_index, groups, nodes, dkg_task,
                                signature_task, coordinators>>

\* SigScheme::verify of one partial signature against a member's partial
\* public key, after both deserialize
PartialVerify(partial_public_key, message, partial_signature) ==
    SigVerify(partial_public_key, message, partial_signature)

\* A challenge that always reports a verified reward.
AlwaysVerified(slashed) == "SignatureRewardVerifiedSuccessfully"

\* What challenge_verifiable_reward returns after its loop: Ok(()) from the
\* arm that slashes, Err(SignatureRewardVerifiedSuccessfully) after a loop
\* without failure.
ChallengeReturn(slashed) ==
    IF slashed THEN "Ok" ELSE "SignatureRewardVerifiedSuccessfully"

challenge_verifiable_reward(id_address, signature_index) ==
    LET args == <<id_address, signature_index>>
    IN  IF signature_index \notin DOMAIN verifiable_signature_rewards
        THEN Rejected("challenge_verifiable_reward", args,
                      "VerifiableSignatureRewardNotExisted")
        ELSE
        LET signature_reward == verifiable_signature_rewards[signature_index]
            group == signature_reward.group
            message == signature_reward.signature_task.message
            partials == signature_reward.partial_signatures
            \* members whose recorded partial public key does not deserialize
            undecodable == {m \in DOMAIN partials :
                               ~IsCurvePoint(group.members[m].partial_public_key)}
            \* members whose partial signature fails verification
            failing == {m \in DOMAIN partials \ undecodable :
                           ~PartialVerify(group.members[m].partial_public_key,
                                          message, partials[m])}
        IN  \* the loop stops at the first member of either set, in the
            \* HashMap's iteration order
            \/ /\ undecodable # {}
               /\ Rejected("challenge_verifiable_reward", args, "PublicKeyBadFormat")
            \/ /\ failing # {}
               /\ \E t \in slash_node(Current, signature_reward.committer,
                                      COMMITTER_PENALTY_PER_SIGNATURE, 0, TRUE) :
                      Completes(t) /\ Install(t)
               /\ rewards' = MapPut(rewards, id_address,
                                    (IF id_address \in DOMAIN rewards
                                     THEN rewards[id_address] ELSE 0)
                                    + CHALLENGE_REWARD_PER_SIGNATURE)
               /\ verifiable_signature_rewards' =
                      MapRemove(verifiable_signature_rewards, signature_index)
               /\ Returned("challenge_verifiable_reward", args, ChallengeReturn(TRUE))
               /\ UNCHANGED <<block_height, signature_count, last_output,
                              last_group_index, pending_signature_tasks,
                              signature_task>>
            \/ /\ failing # {}
               /\ \E t \in slash_node(Current, signature_reward.committer,
                                      COMMITTER_PENALTY_PER_SIGNATURE, 0, TRUE) : t.panic
               /\ Aborted
            \/ /\ undecodable \cup failing = {}
               /\ verifiable_signature_rewards' =
                      MapRemove(verifiable_signature_rewards, signature_index)
               /\ Returned("challenge_verifiable_reward", args, ChallengeReturn(FALSE))
               /\ UNCHANGED <<block_height, epoch, signature_count, last_output,
                              last_group_index, groups, nodes, rewards,
                              pending_signature_tasks, dkg_task, signature_task,
                              coordinators>>

claim(id_address, token_amount) ==
    LET args == <<id_address, token_amount>>
    IN  IF id_address \notin DOMAIN rewards
        THEN Rejected("claim", args, "RewardRecordNotExisted")
        ELSE LET actual_amount == rewards[id_address]
                 operate_amount == IF actual_amount >= token_amount
                                   THEN token_amount ELSE actual_amount
             IN  /\ rewards' = [rewards EXCEPT ![id_address] = @ - operate_amount]
                 /\ Returned("claim", args, "Ok")
                 /\ UNCHANGED <<block_height, epoch, signature_count, last_output,
                                last_group_index, groups, nodes,
                                pending_signature_tasks,
                                verifiable_signature_rewards, dkg_task,
                                signature_task, coordinators>>

\* ------------------------------------------------------------ adapter
\* bincode bytes: the serialization of x is <<x>>, the empty byte string
\* deserializes to nothing.
Serialized(x) == <<x>>

Deserializes(bytes) == bytes # <<>>

Deserialized(bytes) == bytes[1]

\* A return of an Adapter transaction; the Controller is left alone.
AdapterReturned(op, args, ret) ==
    /\ ~panicked
    /\ result' = IF op \in observed
                 THEN [op |-> op, args |-> args, ret |-> ret]
                 ELSE NoResult
    /\ observed' = observed
    /\ panicked' = panicked
    /\ publish_requests' = publish_requests
    /\ NodesUntouched
    /\ UNCHANGED <<block_height, epoch, signature_count, last_output,
                   last_group_index, groups, nodes, rewards,
                   pending_signature_tasks, verifiable_signature_rewards,
                   dkg_task, signature_task, coordinators>>

\* An Err return of the Adapter before any assignment.
AdapterRejected(op, args, ret) ==
    /\ AdapterReturned(op, args, ret)
    /\ adapter' = adapter

\* An Adapter call that meets a panic (an unwrap of None).
AdapterAborted ==
    /\ ~panicked
    /\ panicked' = TRUE
    /\ result' = NoResult
    /\ observed' = observed
    /\ adapter' = adapter
    /\ publish_requests' = publish_requests
    /\ NodesUntouched
    /\ UNCHANGED <<block_height, epoch, signature_count, last_output,
                   last_group_index, groups, nodes, rewards,
                   pending_signature_tasks, verifiable_signature_rewards,
                   dkg_task, signature_task, coordinators>>

\* AdapterViews::valid_group_indices
adapter_valid_group_indices ==
    {adapter.groups[i].index : i \in {j \in DOMAIN adapter.groups : adapter.groups[j].state}}

\* AdapterViews::get_group_relay_confirmation_task_state: 0 NotExisted,
\* 1 Available, 2 Invalid.
get_group_relay_confirmation_task_state(task_index) ==
    IF \/ task_index >= adapter.relayed_group_confirmation_count
       \/ task_index \notin DOMAIN adapter.relayed_group_confirmation_tasks
    THEN 0
    ELSE LET task == adapter.relayed_group_confirmation_tasks[task_index]
             current_relayed_group_epoch == adapter.groups[task.relayed_group_index].epoch
         IN  IF /\ adapter.block_height - task.assignment_block_height
                       <= RELAY_CONFIRMATION_VALIDATION_WINDOW
                /\ task.relayed_group_epoch > current_relayed_group_epoch
             THEN 1
             ELSE 2

\* AdapterMockHelper::mine
adapter_mine(block_number) ==
    /\ adapter' = [adapter EXCEPT !.block_height = @ + block_number]
    /\ AdapterReturned("mine", <<block_number>>, "Ok")

\* AdapterTransactions::set_initial_group
set_initial_group(id_address, group) ==
    LET args == <<id_address, group>>
    IN  IF id_address # AdminAddress
        THEN AdapterRejected("set_initial_group", args, "AuthenticationFailed")
        ELSE IF DOMAIN adapter.groups # {}
        THEN AdapterRejected("set_initial_group", args, "InitialGroupExisted")
        ELSE IF ~Deserializes(group)
        THEN AdapterRejected("set_initial_group", args, "PublicKeyBadFormat")
        ELSE LET initial_group == Deserialized(group)
             IN  /\ adapter' = [adapter EXCEPT
                        !.groups = MapPut(@, initial_group.index, initial_group)]
                 /\ AdapterReturned("set_initial_group", args, "Ok")

\* The loop of request_randomness: the next index, modulo groups.len() + 1,
\* that is a valid group index.
RECURSIVE AdapterNextValidGroup(_)
AdapterNextValidGroup(assignment_group_index) ==
    LET next == (assignment_group_index + 1) % (Cardinality(DOMAIN adapter.groups) + 1)
    IN  IF next \in adapter_valid_group_indices
        THEN next
        ELSE AdapterNextValidGroup(next)

\* AdapterTransactions::request_randomness. When no valid group index lies
\* in 0..groups.len() the loop never ends and the call makes no step.
adapter_request_randomness(message) ==
    LET args == <<message>>
    IN  IF adapter_valid_group_indices = {}
        THEN AdapterRejected("request_randomness", args, "NoVaildGroup")
        ELSE /\ \E i \in adapter_valid_group_indices : i <= Cardinality(DOMAIN adapter.groups)
             /\ LET assignment_group_index == AdapterNextValidGroup(adapter.last_group_index)
                    task == [index |-> adapter.signature_count,
                             message |-> [text |-> message,
                                          block_height |-> adapter.block_height,
                                          last_output |-> adapter.last_output],
                             group_index |-> assignment_group_index,
                             assignment_block_height |-> adapter.block_height]
                IN  /\ adapter' = [adapter EXCEPT
                           !.signature_count = @ + 1,
                           !.signature_task = Some(task),
                           !.pending_signature_tasks = MapPut(@, task.index, task),
                           !.last_group_index = assignment_group_index]
                    /\ AdapterReturned("request_randomness", args, "Ok")

\* AdapterTransactions::fulfill_relay
fulfill_relay(id_address, relayer_group_index, task_index, signature, group_as_bytes) ==
    LET args == <<id_address, relayer_group_index, task_index, signature, group_as_bytes>>
    IN  IF task_index \in DOMAIN adapter.relayed_group_cache
        THEN AdapterRejected("fulfill_relay", args, "RelayFulfillmentRepeated")
        ELSE IF relayer_group_index \notin DOMAIN adapter.groups
        THEN AdapterRejected("fulfill_relay", args, "GroupNotExisted")
        ELSE IF id_address \notin Range(adapter.groups[relayer_group_index].committers)
        THEN AdapterRejected("fulfill_relay", args, "NotFromCommitter")
        ELSE IF ~IsCurvePoint(adapter.groups[relayer_group_index].public_key)
        THEN AdapterRejected("fulfill_relay", args, "PublicKeyBadFormat")
        ELSE IF ~Deserializes(group_as_bytes)
        THEN AdapterRejected("fulfill_relay", args, "PublicKeyBadFormat")
        ELSE LET relayed_group == Deserialized(group_as_bytes)
                 relayed_group_index == relayed_group.index
                 relayed_group_epoch == relayed_group.epoch
             IN  IF relayed_group_index \notin DOMAIN adapter.groups
                 THEN AdapterAborted
                 ELSE IF relayed_group_epoch <= adapter.groups[relayed_group_index].epoch
                 THEN AdapterRejected("fulfill_relay", args, "RelayGroupDataObsolete")
                 ELSE IF ~SigVerify(adapter.groups[relayer_group_index].public_key,
                                    group_as_bytes, signature)
                 THEN AdapterRejected("fulfill_relay", args, "BLSVerifyFailed")
                 ELSE LET group_relay_confirmation_task_index ==
                              adapter.relayed_group_confirmation_count
                          group_relay_confirmation_task ==
                              [index |-> group_relay_confirmation_task_index,
                               group_relay_cache_index |-> task_index,
                               relayed_group_index |-> relayed_group_index,
                               relayed_group_epoch |-> relayed_group_epoch,
                               relayer_group_index |-> relayer_group_index,
                               assignment_block_height |-> adapter.block_height]
                          group_relay_cache ==
                              [relayer_committer |-> id_address,
                               group |-> relayed_group,
                               group_relay_confirmation_task_index |->
                                   group_relay_confirmation_task_index]
                      IN  /\ adapter' = [adapter EXCEPT
                                 !.groups[relayed_group_index].state = FALSE,
                                 !.group_relay_confirm_task =
                                     Some(group_relay_confirmation_task),
                                 !.relayed_group_confirmation_count = @ + 1,
                                 !.relayed_group_confirmation_tasks =
                                     MapPut(@, group_relay_confirmation_task_index,
                                            group_relay_confirmation_task),
                                 !.relayed_group_cache =
                                     MapPut(@, task_index, group_relay_cache)]
                          /\ AdapterReturned("fulfill_relay", args, "Ok")

\* A cancellation that leaves the target group suspended.
CancelKeepsSuspended(gs, relayed_group_index) == gs

\* current_relayed_group.state = true
ResumeGroup(gs, relayed_group_index) ==
    [gs EXCEPT ![relayed_group_index].state = TRUE]

\* AdapterTransactions::cancel_invalid_relay_confirmation_task
cancel_invalid_relay_confirmation_task(id_address, task_index) ==
    LET args == <<id_address, task_index>>
    IN  IF task_index \notin DOMAIN adapter.relayed_group_confirmation_tasks
        THEN AdapterRejected("cancel_invalid_relay_confirmation_task", args,
                             "RelayTaskNotFound")
        ELSE LET group_relay_confirmation_task ==
                     adapter.relayed_group_confirmation_tasks[task_index]
                 relayed_group_cache_index ==
                     group_relay_confirmation_task.group_relay_cache_index
                 relayed_group_epoch == group_relay_confirmation_task.relayed_group_epoch
                 relayed_group_index == group_relay_confirmation_task.relayed_group_index
             IN  IF relayed_group_index \notin DOMAIN adapter.groups
                 THEN AdapterAborted
                 ELSE IF /\ adapter.block_height
                                - group_relay_confirmation_task.assignment_block_height
                                <= RELAY_CONFIRMATION_VALIDATION_WINDOW
                         /\ relayed_group_epoch > adapter.groups[relayed_group_index].epoch
                 THEN AdapterRejected("cancel_invalid_relay_confirmation_task", args,
                                      "RelayConfirmationTaskStillAvailable")
                 ELSE /\ adapter' = [adapter EXCEPT
                             !.groups = ResumeGroup(@, relayed_group_index),
                             !.relayed_group_cache =
                                 MapRemove(@, relayed_group_cache_index),
                             !.relayed_group_confirmation_tasks =
                                 MapRemove(@, task_index)]
                      /\ AdapterReturned("cancel_invalid_relay_confirmation_task",
                                         args, "Ok")

\* AdapterInternal::reward_randomness, on the rewards map
reward_randomness(rs, committer_address, participant_members) ==
    LET with_committer == IF committer_address \in DOMAIN rs
                          THEN rs ELSE MapPut(rs, committer_address, 0)
        committer_paid == [with_committer EXCEPT
                              ![committer_address] = @ + COMMITTER_REWARD_PER_SIGNATURE]
    IN  [m \in DOMAIN committer_paid \cup participant_members |->
            (IF m \in DOMAIN committer_paid THEN committer_paid[m] ELSE 0)
            + (IF m \in participant_members THEN REWARD_PER_SIGNATURE ELSE 0)]

\* AdapterTransactions::confirm_relay
confirm_relay(id_address, task_index, group_relay_confirmation_as_bytes, signature) ==
    LET args == <<id_address, task_index, group_relay_confirmation_as_bytes, signature>>
    IN  IF task_index \notin DOMAIN adapter.relayed_group_confirmation_tasks
        THEN AdapterRejected("confirm_relay", args, "RelayTaskNotFound")
        ELSE LET group_relay_confirmation_task ==
                     adapter.relayed_group_confirmation_tasks[task_index]
                 relayed_group_cache_index ==
                     group_relay_confirmation_task.group_relay_cache_index
                 group_index == group_relay_confirmation_task.relayed_group_index
             IN  IF \/ relayed_group_cache_index \notin DOMAIN adapter.relayed_group_cache
                    \/ group_index \notin DOMAIN adapter.groups
                 THEN AdapterAborted
                 ELSE LET cache == adapter.relayed_group_cache[relayed_group_cache_index]
                          current_relayed_group == adapter.groups[group_index]
                          removed == [adapter EXCEPT
                                         !.relayed_group_cache =
                                             MapRemove(@, relayed_group_cache_index),
                                         !.relayed_group_confirmation_tasks =
                                             MapRemove(@, task_index)]
                      IN  IF ~IsCurvePoint(current_relayed_group.public_key)
                          THEN AdapterRejected("confirm_relay", args, "PublicKeyBadFormat")
                          ELSE IF ~SigVerify(current_relayed_group.public_key,
                                             group_relay_confirmation_as_bytes, signature)
                          THEN AdapterRejected("confirm_relay", args, "BLSVerifyFailed")
                          ELSE IF ~Deserializes(group_relay_confirmation_as_bytes)
                          THEN AdapterRejected("confirm_relay", args, "PublicKeyBadFormat")
                          ELSE LET group_relay_confirmation ==
                                       Deserialized(group_relay_confirmation_as_bytes)
                                   relayed_group == group_relay_confirmation.group
                               IN  IF relayed_group # cache.group
                                   THEN AdapterRejected("confirm_relay", args,
                                                        "RelayGroupDataInconsistency")
                                   ELSE IF /\ group_relay_confirmation.status
                                           /\ relayed_group.epoch <= current_relayed_group.epoch
                                   THEN /\ adapter' = removed
                                        /\ AdapterReturned("confirm_relay", args,
                                                           "RelayGroupDataObsolete")
                                   ELSE IF group_relay_confirmation.status
                                   THEN /\ adapter' = [removed EXCEPT
                                               !.rewards = reward_randomness(@,
                                                   cache.relayer_committer,
                                                   DOMAIN current_relayed_group.members),
                                               !.groups = MapPut(@, relayed_group.index,
                                                                 relayed_group),
                                               !.epoch = @ + 1]
                                        /\ AdapterReturned("confirm_relay", args, "Ok")
                                   ELSE /\ adapter' = [removed EXCEPT
                                               !.groups[relayed_group.index].state = TRUE]
                                        /\ AdapterReturned("confirm_relay", args, "Ok")

\* ------------------------------------------------------------ callers
\* The arguments the callers pass.

\* What a member commits: a group public key (0 does not deserialize,
\* 1 is the key of the round) and a disqualified list.
Commit(public_key, disqualified_nodes) ==
    [public_key |-> public_key, disqualified_nodes |-> disqualified_nodes]

\* The commit of a round without complaints.
HonestCommit == Commit(1, <<>>)

\* The honest commit, and a commit that disqualifies node 0x3.
CommitChoices == {HonestCommit, Commit(1, <<3>>)}

\* Node n's own share has partial public key n; 0 does not deserialize.
OwnPartialPublicKey(id) == id

\* The calls of commit_dkg by the nodes ids: each node for each existing
\* group at the group's epoch with each of the commits.
CommitDkgCalls(ids, commits) ==
    {<<id, i, groups[i].epoch, c.public_key, OwnPartialPublicKey(id), c.disqualified_nodes>> :
        id \in ids, i \in DOMAIN groups, c \in commits}

\* The calls of commit_dkg with one argument wrong: the epoch before, a
\* group that does not exist, a key or a partial key that does not
\* deserialize.
BadCommitDkgCalls(ids) ==
    {<<id, i, groups[i].epoch - 1, 1, OwnPartialPublicKey(id), <<>> >> :
        id \in ids, i \in {j \in DOMAIN groups : groups[j].epoch > 0}}
    \cup {<<id, Len(groups) + 1, 0, 1, OwnPartialPublicKey(id), <<>> >> : id \in ids}
    \cup {<<id, i, groups[i].epoch, 0, OwnPartialPublicKey(id), <<>> >> :
             id \in ids, i \in DOMAIN groups}
    \cup {<<id, i, groups[i].epoch, 1, 0, <<>> >> :
             id \in ids, i \in DOMAIN groups}

\* The signature tasks the nodes have seen: pending, rewarded, or the last
\* one emitted.
KnownTasks ==
    {pending_signature_tasks[i] : i \in DOMAIN pending_signature_tasks}
    \cup {verifiable_signature_rewards[i].signature_task :
             i \in DOMAIN verifiable_signature_rewards}
    \cup Range(signature_task)

\* The threshold signature of a message under a group public key.
ThresholdSign(public_key, message) == [key |-> public_key, message |-> message]

\* Bytes that verify under no key.
Garbage(message) == [key |-> 0, message |-> message]

\* The partial signatures of the nodes signers on a message: each node's
\* own, or each a blob that verifies under no key.
PartialSignatures(signers, message, honest) ==
    [n \in signers |-> [key |-> IF honest THEN OwnPartialPublicKey(n) ELSE 0,
                        message |-> message]]

\* The calls of fulfill_randomness by the nodes ids for group i and a task:
\* with the group's threshold signature of the task's message and partial
\* signatures of the group's members; with a signature that does not
\* verify; with a partial signature of a node outside the group.
FulfillCallsFor(ids, i, task) ==
    {<<id, i, task.index, ThresholdSign(groups[i].public_key, task.message),
       PartialSignatures(DOMAIN groups[i].members, task.message, honest)>> :
        id \in ids, honest \in BOOLEAN}
    \cup {<<id, i, task.index, Garbage(task.message),
            PartialSignatures(DOMAIN groups[i].members, task.message, TRUE)>> :
             id \in ids}
    \cup {<<id, i, task.index, ThresholdSign(groups[i].public_key, task.message),
            PartialSignatures({outsider}, task.message, TRUE)>> :
             id \in ids, outsider \in ids \ DOMAIN groups[i].members}

\* The calls of fulfill_randomness by the nodes ids: for each existing
\* group and each known task; for a group that does not exist; for a task
\* index not handed out yet.
FulfillRandomnessCalls(ids) ==
    UNION {FulfillCallsFor(ids, i, task) : i \in DOMAIN groups, task \in KnownTasks}
    \cup {<<id, Len(groups) + 1, task.index, Garbage(task.message), EmptyMap>> :
             id \in ids, task \in KnownTasks}
    \cup {<<id, 1, signature_count, Garbage(0), EmptyMap>> : id \in ids}

\* Nodes register in the order of their addresses (a registered address
\* may be named again).
RegisterInOrder(ids) ==
    \E id \in ids :
        /\ \A other \in ids : other < id => other \in DOMAIN nodes
        /\ node_register(id)

\* mine(block_number) up to block height last.
MineUpTo(block_number, last) ==
    /\ block_height + block_number <= last
    /\ mine(block_number)

\* The runs stop short of global epoch max_epoch + 1 and of more than
\* max_inactive inactive nodes.
Capped(max_epoch, max_inactive) ==
    /\ epoch <= max_epoch
    /\ Cardinality({n \in DOMAIN nodes : ~nodes[n].state}) <= max_inactive

\* ------------------------------------------------------------ node processes
\* InMemoryGroupInfoCache::new. Of the members only the addresses are kept,
\* and of the share whether there is one.
NewGroupInfoCache ==
    [index |-> 0, epoch |-> 0, size |-> 0, threshold |-> 0, state |-> FALSE,
     members |-> {}, committers |-> <<>>, self_index |-> 0, share |-> FALSE]

\* The tasks a node process runs: the task handled by
\* StartingGroupingListener::handle, if any; the EndGroupingListeners
\* spawned and not yet returned, each with its local variables; whether a
\* BLSTaskListener and the committer server run; the
\* SignatureAggregationListeners that run, each with its local variables;
\* and the commit_partial_signature requests the committer server is
\* handling, each with what its handler has read so far.
NewListeners ==
    [starting_grouping |-> None, end_grouping |-> {}, bls_task |-> FALSE,
     committer_server |-> FALSE, signature_aggregation |-> {},
     commit_requests |-> {}]

\* MockSignatureAggregationListener as it is spawned: no snapshot of the
\* ready entries taken, the completion state of no entry asked for.
NewSignatureAggregationListener == [ready |-> <<>>, checked |-> FALSE]

\* GroupInfoUpdater::save_task_info
save_task_info(cache, self_index, task) ==
    [cache EXCEPT !.self_index = self_index,
                  !.index = task.group_index,
                  !.epoch = task.epoch,
                  !.size = task.size,
                  !.threshold = task.threshold,
                  !.state = FALSE,
                  !.members = DOMAIN task.members,
                  !.committers = <<>>]

\* GroupInfoUpdater::save_committers returns Ok
SaveCommittersOk(cache, index, group_epoch) ==
    /\ cache.index # 0
    /\ cache.index = index
    /\ cache.epoch = group_epoch
    /\ ~cache.state

\* GroupInfoUpdater::save_committers
save_committers(cache, index, group_epoch, committer_indices) ==
    IF SaveCommittersOk(cache, index, group_epoch)
    THEN [cache EXCEPT !.committers = committer_indices, !.state = TRUE]
    ELSE cache

\* A step of a node process that sends no transaction: the views it reads
\* leave the contracts as they are.
ContractsUntouched ==
    UNCHANGED <<block_height, epoch, signature_count, last_output,
                last_group_index, groups, nodes, rewards,
                pending_signature_tasks, verifiable_signature_rewards,
                dkg_task, signature_task, coordinators, result, observed,
                panicked, adapter, publish_requests>>

\* One turn of the loop of MockBlockListener::start: mine(1), then the
\* height returned is written to the block cache.
MockBlockListener(id_address) ==
    /\ mine(1)
    /\ block_cache' = [block_cache EXCEPT ![id_address] = block_height']
    /\ UNCHANGED <<group_cache, committer_cache, bls_tasks_cache, listeners>>

\* One turn of the loop of MockStartingGroupingListener::start that finds a
\* task of a new round with this node among its members: the task is saved
\* and handle is entered. The loop takes no further turn until handle
\* returns.
StartingGroupingReceive(id_address) ==
    /\ listeners[id_address].starting_grouping = None
    /\ dkg_task # None
    /\ LET task == dkg_task[1]
           cache == group_cache[id_address]
       IN  /\ id_address \in DOMAIN task.members
           /\ cache.index # task.group_index \/ cache.epoch # task.epoch
           /\ group_cache' = [group_cache EXCEPT ![id_address] =
                                 save_task_info(cache, task.members[id_address], task)]
           /\ listeners' = [listeners EXCEPT ![id_address].starting_grouping = Some(task)]
    /\ ContractsUntouched
    /\ UNCHANGED <<block_cache, committer_cache, bls_tasks_cache>>

\* The EndGroupingListener spawned for a task: group_index is read from
\* the group cache and block_height from the block cache as start begins.
NewEndGroupingListener(id_address, task) ==
    [group_index |-> group_cache[id_address].index,
     timeout_block_height |-> task.assignment_block_height + DEFAULT_DKG_TIMEOUT_DURATION,
     block_height |-> block_cache[id_address]]

\* MockStartingGroupingListener::handle returns Ok: run_dkg has waited for
\* the Coordinator to reach the second phase and has its output, which this
\* node commits, and the EndGroupingListener of the task is spawned when
\* commit_dkg returns Ok. The output names every member qualified under the
\* key the honest members agree on.
StartingGroupingHandleOk(id_address) ==
    /\ listeners[id_address].starting_grouping # None
    /\ LET task == listeners[id_address].starting_grouping[1]
       IN  /\ task.group_index \in DOMAIN coordinators
           /\ coordinators[task.group_index].epoch = task.epoch
           /\ CoordinatorPhase(coordinators[task.group_index]) \in {2, 3}
           /\ commit_dkg(id_address, task.group_index, task.epoch,
                         HonestCommit.public_key, OwnPartialPublicKey(id_address),
                         HonestCommit.disqualified_nodes)
           /\ listeners' =
                 [listeners EXCEPT
                     ![id_address].starting_grouping = None,
                     ![id_address].end_grouping =
                         IF result'.ret = "Ok"
                         THEN @ \cup {NewEndGroupingListener(id_address, task)}
                         ELSE @]
    /\ group_cache' = [group_cache EXCEPT ![id_address].share = TRUE]
    /\ UNCHANGED <<block_cache, committer_cache, bls_tasks_cache>>

\* MockStartingGroupingListener::handle returns Err: the Coordinator of the
\* task is gone or has ended while run_dkg waited for a phase, or the
\* protocol failed after the first phase. Nothing is committed or spawned.
StartingGroupingHandleErr(id_address) ==
    /\ listeners[id_address].starting_grouping # None
    /\ LET task == listeners[id_address].starting_grouping[1]
       IN  \/ task.group_index \notin DOMAIN coordinators
           \/ coordinators[task.group_index].epoch # task.epoch
           \/ CoordinatorPhase(coordinators[task.group_index]) > 1
    /\ listeners' = [listeners EXCEPT ![id_address].starting_grouping = None]
    /\ ContractsUntouched
    /\ UNCHANGED <<block_cache, group_cache, committer_cache, bls_tasks_cache>>

\* The listeners of a node once MockEndGroupingListener::handle has
\* returned Ok for a group: a BLSTaskListener, and on a committer of the
\* group a SignatureAggregationListener and the committer server.
SpawnListeners(ls, id_address, group) ==
    IF id_address \in Range(group.committers)
    THEN [ls EXCEPT !.bls_task = TRUE,
                    !.committer_server = TRUE,
                    !.signature_aggregation = @ \cup {NewSignatureAggregationListener}]
    ELSE [ls EXCEPT !.bls_task = TRUE]

\* One turn of the while loop of MockEndGroupingListener::start, taken
\* while the local block_height is at most timeout_block_height: the group
\* is read from the Controller, handle saves its committers when it is
\* ready and the listeners of the ready group are spawned, and
\* block_height is read again from the block cache. The listener returns
\* when get_group fails.
EndGroupingPoll(id_address, l) ==
    /\ l \in listeners[id_address].end_grouping
    /\ l.block_height <= l.timeout_block_height
    /\ IF l.group_index \notin DOMAIN groups
       THEN /\ listeners' = [listeners EXCEPT ![id_address].end_grouping = @ \ {l}]
            /\ group_cache' = group_cache
       ELSE LET group == groups[l.group_index]
                polled == [listeners[id_address] EXCEPT !.end_grouping =
                              (@ \ {l}) \cup {[l EXCEPT !.block_height = block_cache[id_address]]}]
            IN  /\ listeners' =
                      [listeners EXCEPT ![id_address] =
                          IF /\ group.state
                             /\ SaveCommittersOk(group_cache[id_address], group.index, group.epoch)
                          THEN SpawnListeners(polled, id_address, group)
                          ELSE polled]
                /\ group_cache' =
                      [group_cache EXCEPT ![id_address] =
                          IF group.state
                          THEN save_committers(@, group.index, group.epoch, group.committers)
                          ELSE @]
    /\ ContractsUntouched
    /\ UNCHANGED <<block_cache, committer_cache, bls_tasks_cache>>

\* The end of MockEndGroupingListener::start: once the local block_height
\* is past timeout_block_height, check_dkg_state is called once and the
\* listener returns, with Ok or with the error of the call.
EndGroupingTimeout(id_address, l) ==
    /\ l \in listeners[id_address].end_grouping
    /\ l.block_height > l.timeout_block_height
    /\ check_dkg_state(id_address, l.group_index)
    /\ listeners' = [listeners EXCEPT ![id_address].end_grouping = @ \ {l}]
    /\ UNCHANGED <<block_cache, group_cache, committer_cache, bls_tasks_cache>>

\* The watcher spawned with the listeners of a ready group, and the
\* shutdown signal of the committer server: once the group cache reports
\* no group task or state = false, the BLSTaskListener and the
\* SignatureAggregationListener are aborted where they stand and the
\* server stops.
ListenersAbort(id_address) ==
    /\ group_cache[id_address].index = 0 \/ ~group_cache[id_address].state
    /\ \/ listeners[id_address].bls_task
       \/ listeners[id_address].committer_server
       \/ listeners[id_address].signature_aggregation # {}
    /\ listeners' = [listeners EXCEPT ![id_address].bls_task = FALSE,
                                      ![id_address].committer_server = FALSE,
                                      ![id_address].signature_aggregation = {}]
    /\ ContractsUntouched
    /\ UNCHANGED <<block_cache, group_cache, committer_cache, bls_tasks_cache>>

\* MockBLSCore::partial_sign with the share of node id_address
partial_sign(id_address, message) ==
    [key |-> OwnPartialPublicKey(id_address), message |-> message]

\* MockBLSCore::partial_verify returns Ok
partial_verify(partial_public_key, message, partial_signature) ==
    SigVerify(partial_public_key, message, partial_signature)

\* MockBLSCore::aggregate: partial signatures of one message, each valid
\* under its signer's key, give the signature of the message under the
\* public key of the group; any others give bytes that verify under no key.
aggregate(partial_signatures) ==
    LET any == partial_signatures[CHOOSE m \in DOMAIN partial_signatures : TRUE]
    IN  IF \A m \in DOMAIN partial_signatures :
               /\ partial_signatures[m].message = any.message
               /\ partial_signatures[m].key = OwnPartialPublicKey(m)
        THEN ThresholdSign(HonestCommit.public_key, any.message)
        ELSE Garbage(any.message)

\* SignatureResultCacheUpdater::add
NewSignatureResultCache(group_index, signature_index, threshold) ==
    [group_index |-> group_index, signature_index |-> signature_index,
     threshold |-> threshold, partial_signatures |-> EmptyMap]

\* The entry is added unless contains(signature_index), then
\* add_partial_signature(signature_index, member_address, partial_signature).
AddPartialSignature(cache, gcache, signature_index, member_address, partial_signature) ==
    LET entry == IF signature_index \in DOMAIN cache
                 THEN cache[signature_index]
                 ELSE NewSignatureResultCache(gcache.index, signature_index,
                                              gcache.threshold)
    IN  MapPut(cache, signature_index,
               [entry EXCEPT !.partial_signatures =
                   MapPut(@, member_address, partial_signature)])

\* BLSTasksUpdater::check_and_get_available_tasks: the positions of the
\* tasks returned, which are marked handled.
AvailableTasks(queue, current_block_height, current_group_index) ==
    {i \in DOMAIN queue :
        /\ ~queue[i].handled
        /\ \/ queue[i].task.group_index = current_group_index
           \/ current_block_height > queue[i].task.assignment_block_height + 10}

\* The loop of MockBLSTaskListener::start over the available tasks, in the
\* order of the queue from position i: each is signed with the share, and
\* on a committer the partial signature is put into the entry of
\* task_index, the index of the task just received.
RECURSIVE CommitOwnPartials(_, _, _, _, _, _)
CommitOwnPartials(cache, gcache, queue, i, id_address, task_index) ==
    IF i > Len(queue)
    THEN cache
    ELSE IF /\ i \in AvailableTasks(queue, block_cache[id_address], gcache.index)
            /\ gcache.share
            /\ id_address \in Range(gcache.committers)
    THEN CommitOwnPartials(
             AddPartialSignature(cache, gcache, task_index, id_address,
                                 partial_sign(id_address, queue[i].task.message)),
             gcache, queue, i + 1, id_address, task_index)
    ELSE CommitOwnPartials(cache, gcache, queue, i + 1, id_address, task_index)

\* One turn of the loop of MockBLSTaskListener::start that receives a
\* signature task not yet in the queue: the task is queued, the available
\* tasks are signed and marked handled, the partial signatures go to the
\* committer cache and to the other committers. The listener returns when
\* the group cache holds no group task.
BLSTaskReceive(id_address) ==
    /\ listeners[id_address].bls_task
    /\ signature_task # None
    /\ LET task == signature_task[1]
           gcache == group_cache[id_address]
           queue == Append(bls_tasks_cache[id_address], [task |-> task, handled |-> FALSE])
           available == AvailableTasks(queue, block_cache[id_address], gcache.index)
       IN  /\ \A i \in DOMAIN bls_tasks_cache[id_address] :
                  bls_tasks_cache[id_address][i].task.index # task.index
           /\ IF gcache.index = 0
              THEN /\ bls_tasks_cache' = [bls_tasks_cache EXCEPT ![id_address] = queue]
                   /\ listeners' = [listeners EXCEPT ![id_address].bls_task = FALSE]
                   /\ committer_cache' = committer_cache
              ELSE /\ bls_tasks_cache' =
                         [bls_tasks_cache EXCEPT ![id_address] =
                             [i \in DOMAIN queue |->
                                 [queue[i] EXCEPT !.handled = @ \/ i \in available]]]
                   /\ committer_cache' =
                         [committer_cache EXCEPT ![id_address] =
                             CommitOwnPartials(@, gcache, queue, 1, id_address, task.index)]
                   /\ listeners' = listeners
    /\ ContractsUntouched
    /\ UNCHANGED <<block_cache, group_cache>>

\* BLSCommitterServiceServer::commit_partial_signature on the committer
\* id_address with a request of req_id_address: accepted from a member of
\* the cached group while it is ready, when the partial signature verifies
\* on the message of the request under the member's partial public key.
commit_partial_signature(id_address, req_id_address, message, signature_index, partial_signature) ==
    /\ listeners[id_address].committer_server
    /\ LET gcache == group_cache[id_address]
       IN  committer_cache' =
               [committer_cache EXCEPT ![id_address] =
                   IF /\ gcache.index # 0
                      /\ req_id_address \in gcache.members
                      /\ gcache.state
                      /\ partial_verify(OwnPartialPublicKey(req_id_address), message,
                                        partial_signature)
                   THEN AddPartialSignature(@, gcache, signature_index,
                                            req_id_address, partial_signature)
                   ELSE @]
    /\ ContractsUntouched
    /\ UNCHANGED <<block_cache, group_cache, bls_tasks_cache, listeners>>

\* A commit_partial_signature request whose handler has passed the checks
\* and has read contains(signature_index) under the read lock of the
\* committer cache: group_index and threshold as the group cache held them,
\* contained is what contains returned, added tells that the handler is
\* past the call of add.
CommitRequest(gcache, req_id_address, signature_index, partial_signature, contained) ==
    [id_address |-> req_id_address, signature_index |-> signature_index,
     partial_signature |-> partial_signature, group_index |-> gcache.index,
     threshold |-> gcache.threshold, added |-> contained]

\* The requests the committer server of id_address handles, with one replaced.
WithCommitRequests(id_address, requests) ==
    [listeners EXCEPT ![id_address].commit_requests = requests]

\* BLSCommitterServiceServer::commit_partial_signature up to the read of
\* contains: the handler goes on when the request comes from a member of
\* the cached group, the group is ready and the partial signature verifies
\* on the message of the request; it returns an error otherwise. The
\* handlers of the server run on the threads of the runtime, each between
\* its own acquisitions of the lock.
CommitPartialSignatureCheck(id_address, req_id_address, message, signature_index, partial_signature) ==
    /\ listeners[id_address].committer_server
    /\ LET gcache == group_cache[id_address]
       IN  /\ gcache.index # 0
           /\ req_id_address \in gcache.members
           /\ gcache.state
           /\ partial_verify(OwnPartialPublicKey(req_id_address), message, partial_signature)
           /\ listeners' =
                  WithCommitRequests(id_address,
                      listeners[id_address].commit_requests \cup
                          {CommitRequest(gcache, req_id_address, signature_index,
                                         partial_signature,
                                         signature_index \in DOMAIN committer_cache[id_address])})
    /\ ContractsUntouched
    /\ UNCHANGED <<block_cache, group_cache, committer_cache, bls_tasks_cache>>

\* InMemorySignatureResultCache::add: the entry of signature_index is
\* inserted into the HashMap with no partial signatures, in the place of
\* the entry the map held for that index.
SignatureResultCacheAdd(cache, group_index, signature_index, threshold) ==
    MapPut(cache, signature_index,
           NewSignatureResultCache(group_index, signature_index, threshold))

\* The handler that read contains = false takes the write lock and calls
\* add.
CommitPartialSignatureAdd(id_address, req) ==
    /\ req \in listeners[id_address].commit_requests
    /\ ~req.added
    /\ committer_cache' =
           [committer_cache EXCEPT ![id_address] =
               SignatureResultCacheAdd(@, req.group_index, req.signature_index,
                                       req.threshold)]
    /\ listeners' =
           WithCommitRequests(id_address,
               (listeners[id_address].commit_requests \ {req})
                   \cup {[req EXCEPT !.added = TRUE]})
    /\ ContractsUntouched
    /\ UNCHANGED <<block_cache, group_cache, bls_tasks_cache>>

\* The handler takes the write lock again and calls add_partial_signature,
\* whose result it unwraps: the partial signature is put into the entry and
\* the request is answered with success, or the entry is gone and the
\* handler panics, which answers nothing.
CommitPartialSignatureInsert(id_address, req) ==
    /\ req \in listeners[id_address].commit_requests
    /\ req.added
    /\ committer_cache' =
           [committer_cache EXCEPT ![id_address] =
               IF req.signature_index \in DOMAIN @
               THEN [@ EXCEPT ![req.signature_index].partial_signatures =
                        MapPut(@, req.id_address, req.partial_signature)]
               ELSE @]
    /\ listeners' =
           WithCommitRequests(id_address, listeners[id_address].commit_requests \ {req})
    /\ ContractsUntouched
    /\ UNCHANGED <<block_cache, group_cache, bls_tasks_cache>>

\* A snapshot that leaves out the entries with exactly threshold partial
\* signatures.
ReadyAboveThreshold(cache) ==
    {cache[i] : i \in {j \in DOMAIN cache :
                          Cardinality(DOMAIN cache[j].partial_signatures) > cache[j].threshold}}

\* SignatureResultCacheUpdater::get_ready_to_commit_signatures
get_ready_to_commit_signatures(cache) ==
    {cache[i] : i \in {j \in DOMAIN cache :
                          Cardinality(DOMAIN cache[j].partial_signatures) >= cache[j].threshold}}

\* A listener of the node id_address with its local variables replaced.
WithAggregation(id_address, l, next) ==
    [listeners EXCEPT ![id_address].signature_aggregation = (@ \ {l}) \cup {next}]

\* One turn of the loop of MockSignatureAggregationListener::start begins:
\* the ready entries are cloned out of the cache, in an order the HashMap
\* chooses.
SignatureAggregationSnapshot(id_address, l) ==
    /\ l \in listeners[id_address].signature_aggregation
    /\ l.ready = <<>>
    /\ \E ready \in Orders(get_ready_to_commit_signatures(committer_cache[id_address])) :
           /\ ready # <<>>
           /\ listeners' = WithAggregation(id_address, l, [l EXCEPT !.ready = ready])
    /\ ContractsUntouched
    /\ UNCHANGED <<block_cache, group_cache, committer_cache, bls_tasks_cache>>

\* The next entry of the snapshot is aggregated and the Controller is asked
\* for the completion state of its task: when the task is complete the
\* entry is removed from the cache without a call.
SignatureAggregationCheck(id_address, l) ==
    /\ l \in listeners[id_address].signature_aggregation
    /\ l.ready # <<>>
    /\ ~l.checked
    /\ IF get_signature_task_completion_state(Head(l.ready).signature_index)
       THEN /\ committer_cache' =
                  [committer_cache EXCEPT ![id_address] =
                      MapRemove(@, Head(l.ready).signature_index)]
            /\ listeners' = WithAggregation(id_address, l, [l EXCEPT !.ready = Tail(@)])
       ELSE /\ committer_cache' = committer_cache
            /\ listeners' = WithAggregation(id_address, l, [l EXCEPT !.checked = TRUE])
    /\ ContractsUntouched
    /\ UNCHANGED <<block_cache, group_cache, bls_tasks_cache>>

\* The task was not complete: fulfill_randomness is called with the
\* aggregated signature, and the entry is removed from the cache whatever
\* the call returns.
SignatureAggregationFulfill(id_address, l) ==
    /\ l \in listeners[id_address].signature_aggregation
    /\ l.ready # <<>>
    /\ l.checked
    /\ LET entry == Head(l.ready)
       IN  /\ fulfill_randomness(id_address, entry.group_index, entry.signature_index,
                                 aggregate(entry.partial_signatures),
                                 entry.partial_signatures)
           /\ committer_cache' =
                  [committer_cache EXCEPT ![id_address] =
                      MapRemove(@, entry.signature_index)]
    /\ listeners' = WithAggregation(id_address, l,
                                    [l EXCEPT !.ready = Tail(@), !.checked = FALSE])
    /\ UNCHANGED <<block_cache, group_cache, bls_tasks_cache>>

\* ------------------------------------------------------------ group formation
\* NumNodes nodes register, commit, quit, come back and trigger the
\* post-process of the DKG; a block step is one quit period.
NodeRegister ==
    /\ RegisterInOrder(NodeIds)
    /\ Capped(MaxEpoch, MaxInactive)'

NodeActivate ==
    /\ \E id \in NodeIds : node_activate(id)
    /\ Capped(MaxEpoch, MaxInactive)'

\* A node quits when it is active (an unregistered address may be named).
NodeQuit ==
    /\ \E id \in NodeIds :
           /\ id \in DOMAIN nodes => nodes[id].state
           /\ node_quit(id)
    /\ Capped(MaxEpoch, MaxInactive)'

CommitDkg ==
    /\ \E call \in CommitDkgCalls(NodeIds, CommitChoices) \cup BadCommitDkgCalls(NodeIds) :
           commit_dkg(call[1], call[2], call[3], call[4], call[5], call[6])
    /\ Capped(MaxEpoch, MaxInactive)'

CheckDkgState ==
    /\ \E id \in {1, NumNodes}, group_index \in 1..(Len(groups) + 1) :
           check_dkg_state(id, group_index)
    /\ Capped(MaxEpoch, MaxInactive)'

Mine == MineUpTo(PENDING_BLOCK_AFTER_QUIT, MaxBlockHeight)

Next ==
    \/ NodeRegister
    \/ NodeActivate
    \/ NodeQuit
    \/ CommitDkg
    \/ CheckDkgState
    \/ Mine

Spec == Init /\ [][Next]_vars

\* ------------------------------------------------------------ one large group
\* LargeGroupSize nodes register into one group and commit, honestly or
\* disqualifying the last two of them.
LargeGroup == 1..LargeGroupSize

LargeGroupCommits ==
    {HonestCommit, Commit(1, <<LargeGroupSize - 1, LargeGroupSize>>)}

LargeGroupRegister ==
    /\ RegisterInOrder(LargeGroup)
    /\ Capped(LargeGroupEpochs, LargeGroupInactive)'

LargeGroupCommitDkg ==
    /\ \E call \in CommitDkgCalls(LargeGroup, LargeGroupCommits) :
           commit_dkg(call[1], call[2], call[3], call[4], call[5], call[6])
    /\ Capped(LargeGroupEpochs, LargeGroupInactive)'

NextLargeGroup ==
    \/ LargeGroupRegister
    \/ LargeGroupCommitDkg

SpecLargeGroup == Init /\ [][NextLargeGroup]_vars

\* ------------------------------------------------------------ randomness
\* NumSigners nodes form a group and quit while randomness is requested,
\* fulfilled and challenged; the callers record what fulfill_randomness
\* returns.
Signers == 1..NumSigners

InitRandomness ==
    /\ Constructed
    /\ observed = {"fulfill_randomness"}

SignerRegister ==
    /\ RegisterInOrder(Signers)
    /\ Capped(MaxEpoch, MaxInactive)'

SignerQuit ==
    /\ \E id \in Signers :
           /\ id \in DOMAIN nodes /\ nodes[id].state
           /\ node_quit(id)
    /\ Capped(MaxEpoch, MaxInactive)'

SignerCommitDkg ==
    \E call \in CommitDkgCalls(Signers, {HonestCommit}) :
        commit_dkg(call[1], call[2], call[3], call[4], call[5], call[6])

RequestRandomness ==
    /\ signature_count < MaxSignatureCount
    /\ request_randomness("m")

FulfillRandomness ==
    \E call \in FulfillRandomnessCalls(Signers) :
        fulfill_randomness(call[1], call[2], call[3], call[4], call[5])

ChallengeVerifiableReward ==
    \E id \in {1}, signature_index \in 0..signature_count :
        challenge_verifiable_reward(id, signature_index)

SignerMine == MineUpTo(PENDING_BLOCK_AFTER_QUIT, MaxBlockHeight)

NextRandomness ==
    \/ SignerRegister
    \/ SignerQuit
    \/ SignerCommitDkg
    \/ RequestRandomness
    \/ FulfillRandomness
    \/ ChallengeVerifiableReward
    \/ SignerMine

SpecRandomness == InitRandomness /\ [][NextRandomness]_vars

\* ------------------------------------------------------------ two groups
\* TwoGroupNodes nodes form two groups with honest commits; randomness is
\* requested and the first and the last node try to fulfill it for either
\* group, and for a group that does not exist, while blocks are mined one
\* by one and a window at a time up to block MaxExclusiveHeight.
TwoGroups == 1..TwoGroupNodes

ExclusiveCallers == {1, TwoGroupNodes}

ExclusiveFulfillCalls ==
    {<<id, i, task.index, ThresholdSign(groups[i].public_key, task.message),
       PartialSignatures(DOMAIN groups[i].members, task.message, TRUE)>> :
        id \in ExclusiveCallers, i \in DOMAIN groups, task \in KnownTasks}
    \cup {<<id, Len(groups) + 1, task.index, Garbage(task.message), EmptyMap>> :
             id \in ExclusiveCallers, task \in KnownTasks}

TwoGroupRegister == RegisterInOrder(TwoGroups)

TwoGroupCommitDkg ==
    \E call \in CommitDkgCalls(TwoGroups, {HonestCommit}) :
        commit_dkg(call[1], call[2], call[3], call[4], call[5], call[6])

TwoGroupRequestRandomness ==
    /\ signature_count < MaxSignatureCount
    /\ request_randomness("m")

TwoGroupFulfillRandomness ==
    \E call \in ExclusiveFulfillCalls :
        fulfill_randomness(call[1], call[2], call[3], call[4], call[5])

TwoGroupMine ==
    /\ signature_count > 0
    /\ \E block_number \in {1, SIGNATURE_TASK_EXCLUSIVE_WINDOW} :
           MineUpTo(block_number, MaxExclusiveHeight)

NextExclusive ==
    \/ TwoGroupRegister
    \/ TwoGroupCommitDkg
    \/ TwoGroupRequestRandomness
    \/ TwoGroupFulfillRandomness
    \/ TwoGroupMine

SpecExclusive == InitRandomness /\ [][NextExclusive]_vars

\* ------------------------------------------------------------ quitting committers
\* NumSigners nodes form a group with honest commits, randomness is
\* requested and fulfilled, and the active nodes and an unregistered one
\* try to quit; once a reward is
\* recorded, blocks are mined up to the block before its expiration and then
\* one by one up to block MaxQuitHeight. The outcome of node_quit is
\* observed.
InitQuit ==
    /\ Constructed
    /\ observed = {"node_quit"}

QuitRegister ==
    /\ RegisterInOrder(Signers)
    /\ Capped(MaxEpoch, MaxInactive)'

QuitCommitDkg ==
    \E call \in CommitDkgCalls(Signers, {HonestCommit}) :
        commit_dkg(call[1], call[2], call[3], call[4], call[5], call[6])

QuitRequestRandomness ==
    /\ signature_count < MaxSignatureCount
    /\ request_randomness("m")

QuitFulfillRandomness ==
    \E id \in Signers, i \in DOMAIN groups, task \in KnownTasks :
        fulfill_randomness(id, i, task.index,
                           ThresholdSign(groups[i].public_key, task.message),
                           PartialSignatures(DOMAIN groups[i].members, task.message, TRUE))

QuitNodeQuit ==
    /\ \E id \in Signers \cup {NumSigners + 1} :
           /\ id \in DOMAIN nodes => nodes[id].state
           /\ node_quit(id)
    /\ Capped(MaxEpoch, MaxInactive)'

QuitMine ==
    /\ verifiable_signature_rewards # EmptyMap
    /\ IF block_height = INITIAL_BLOCK_HEIGHT
       THEN MineUpTo(SIGNATURE_REWARDS_VALIDATION_WINDOW - 1, MaxQuitHeight)
       ELSE MineUpTo(1, MaxQuitHeight)

NextQuit ==
    \/ QuitRegister
    \/ QuitCommitDkg
    \/ QuitRequestRandomness
    \/ QuitFulfillRandomness
    \/ QuitNodeQuit
    \/ QuitMine

SpecQuit == InitQuit /\ [][NextQuit]_vars

\* ------------------------------------------------------------ divergent commits
\* NumNodes nodes register one after the other and commit at any time: the
\* honest commit, a commit that disqualifies node 0x3, a commit of another
\* group public key, and the calls with one argument wrong. The outcome of
\* commit_dkg is observed.
DivergentCommits == CommitChoices \cup {Commit(2, <<>>)}

InitCommitDkg ==
    /\ Constructed
    /\ observed = {"commit_dkg"}

DivergentRegister == RegisterInOrder(NodeIds)

DivergentCommitDkg ==
    \E call \in CommitDkgCalls(NodeIds, DivergentCommits) \cup BadCommitDkgCalls(NodeIds) :
        commit_dkg(call[1], call[2], call[3], call[4], call[5], call[6])

NextCommitDkg ==
    \/ DivergentRegister
    \/ DivergentCommitDkg

SpecCommitDkg == InitCommitDkg /\ [][NextCommitDkg]_vars

\* ------------------------------------------------------------ DKG timeout
\* NumTimeoutNodes nodes register one after the other and commit the honest
\* commit or another group public key; blocks are mined up to the last
\* block of the Coordinator's phases and then one by one up to block
\* MaxTimeoutHeight, and the first node and an unregistered address trigger
\* check_dkg_state, whose outcome is observed.
TimeoutNodes == 1..NumTimeoutNodes

TimeoutCommits == {HonestCommit, Commit(2, <<>>)}

TimeoutCallers == {1, NumTimeoutNodes + 1}

InitTimeout ==
    /\ Constructed
    /\ observed = {"check_dkg_state"}

TimeoutRegister == RegisterInOrder(TimeoutNodes)

TimeoutCommitDkg ==
    \E call \in CommitDkgCalls(TimeoutNodes, TimeoutCommits) :
        commit_dkg(call[1], call[2], call[3], call[4], call[5], call[6])

TimeoutCheckDkgState ==
    \E id \in TimeoutCallers, group_index \in 1..(Len(groups) + 1) :
        check_dkg_state(id, group_index)

TimeoutMine ==
    IF block_height = INITIAL_BLOCK_HEIGHT
    THEN MineUpTo(3 * DEFAULT_DKG_PHASE_DURATION, MaxTimeoutHeight)
    ELSE MineUpTo(1, MaxTimeoutHeight)

NextTimeout ==
    \/ TimeoutRegister
    \/ TimeoutCommitDkg
    \/ TimeoutCheckDkgState
    \/ TimeoutMine

SpecTimeout == InitTimeout /\ [][NextTimeout]_vars

\* ------------------------------------------------------------ challenges
\* NumNodes nodes register one after the other and commit honestly;
\* randomness is requested and fulfilled with the partial signatures of all
\* members of the group, each its own or each one that verifies under no
\* key; the first node and an unregistered address challenge the reward.
\* The outcome of challenge_verifiable_reward is observed.
Challengers == {1, NumNodes + 1}

InitChallenge ==
    /\ Constructed
    /\ observed = {"challenge_verifiable_reward"}

ChallengeRegister == RegisterInOrder(NodeIds)

ChallengeCommitDkg ==
    \E call \in CommitDkgCalls(NodeIds, {HonestCommit}) :
        commit_dkg(call[1], call[2], call[3], call[4], call[5], call[6])

ChallengeRequestRandomness ==
    /\ signature_count < MaxSignatureCount
    /\ request_randomness("m")

ChallengeFulfillRandomness ==
    \E id \in NodeIds, i \in DOMAIN groups, task \in KnownTasks, honest \in BOOLEAN :
        fulfill_randomness(id, i, task.index,
                           ThresholdSign(groups[i].public_key, task.message),
                           PartialSignatures(DOMAIN groups[i].members, task.message, honest))

ChallengeReward ==
    /\ \E id \in Challengers, signature_index \in 0..signature_count :
           challenge_verifiable_reward(id, signature_index)
    /\ Capped(MaxEpoch, MaxInactive)'

NextChallenge ==
    \/ ChallengeRegister
    \/ ChallengeCommitDkg
    \/ ChallengeRequestRandomness
    \/ ChallengeFulfillRandomness
    \/ ChallengeReward

SpecChallenge == InitChallenge /\ [][NextChallenge]_vars

\* ------------------------------------------------------------ requests
\* TwoGroupNodes nodes form two groups with honest commits while randomness
\* is requested up to MaxRequests times; the outcome of request_randomness
\* is observed.
InitRequest ==
    /\ Constructed
    /\ observed = {"request_randomness"}

RequestRegister == RegisterInOrder(TwoGroups)

RequestCommitDkg ==
    \E call \in CommitDkgCalls(TwoGroups, {HonestCommit}) :
        commit_dkg(call[1], call[2], call[3], call[4], call[5], call[6])

RequestAgain ==
    /\ signature_count < MaxRequests
    /\ request_randomness("m")

NextRequest ==
    \/ RequestRegister
    \/ RequestCommitDkg
    \/ RequestAgain

SpecRequest == InitRequest /\ [][NextRequest]_vars

\* ------------------------------------------------------------ rebalancing
\* NumRebalanceNodes nodes register one after the other and commit
\* honestly, and active nodes quit, so that groups of different sizes exist
\* when a node joins a new group or leaves a small one.
RebalanceNodes == 1..NumRebalanceNodes

RebalanceRegister ==
    /\ RegisterInOrder(RebalanceNodes)
    /\ Capped(RebalanceEpochs, RebalanceInactive)'

\* The members of a group commit in the order of their addresses.
RebalanceCommitDkg ==
    \E call \in CommitDkgCalls(RebalanceNodes, {HonestCommit}) :
        /\ call[1] \in DOMAIN groups[call[2]].members \ DOMAIN groups[call[2]].commit_cache
        /\ \A other \in DOMAIN groups[call[2]].members :
               other < call[1] => other \in DOMAIN groups[call[2]].commit_cache
        /\ commit_dkg(call[1], call[2], call[3], call[4], call[5], call[6])

RebalanceQuit ==
    /\ \E id \in RebalanceNodes :
           /\ id \in DOMAIN nodes /\ nodes[id].state
           /\ node_quit(id)
    /\ Capped(RebalanceEpochs, RebalanceInactive)'

NextRebalance ==
    \/ RebalanceRegister
    \/ RebalanceCommitDkg
    \/ RebalanceQuit

SpecRebalance == Init /\ [][NextRebalance]_vars

\* The calls rebalance_group(a, b) on the state s that the next node_join
\* of a node can make: after find_available_group added a group and
\* add_to_group put the node into it, try_for_each offers every other
\* group, in the HashMap's key order, until a call returns true.
JoinRebalanceCalls ==
    UNION {UNION {LET joined == add_to_group(f.s, id, f.group_index, TRUE)
                  IN  {[s |-> joined, a |-> i, b |-> f.group_index] :
                          i \in DOMAIN joined.groups \ {f.group_index}} :
                     f \in {x \in find_available_group(Current) : x.need_rebalance}} :
              id \in {n \in RebalanceNodes :
                         /\ n \notin DOMAIN nodes
                         /\ \A other \in RebalanceNodes : other < n => other \in DOMAIN nodes}}

\* The calls rebalance_group(a, b) that the next freeze_node of an active
\* member can make: after remove_from_group left its group with fewer than
\* three members.
FreezeRebalanceCalls ==
    UNION {UNION {LET removed == remove_from_group(Current, id, g, TRUE)
                  IN  IF removed.need_rebalance
                      THEN {[s |-> removed.s, a |-> i, b |-> g] :
                               i \in DOMAIN removed.s.groups \ {g}}
                      ELSE {} :
                     g \in {j \in DOMAIN groups : id \in DOMAIN groups[j].members}} :
              id \in {n \in DOMAIN nodes : nodes[n].state}}

RebalanceCalls == JoinRebalanceCalls \cup FreezeRebalanceCalls

\* ------------------------------------------------------------ relays
\* The admin installs group 1 at epoch 1; its committer 0x1 relays later
\* epochs of group 1 under up to MaxRelays cache indices, the group confirms
\* or complains, anybody cancels, randomness is requested and blocks are
\* mined, a validation window and then one by one, up to block
\* MaxAdapterHeight. Calls with one argument wrong are made as well. The
\* outcome of cancel_invalid_relay_confirmation_task is observed.
\* Adapter::claim and Adapter::fulfill_randomness write rewards, last_output
\* and pending_signature_tasks only and are not called in these runs.

\* The group index at epoch group_epoch as the main chain holds it: ready,
\* with the members Signers, all of them committers, and the public key of
\* that epoch.
AdapterGroup(index, group_epoch) ==
    [index |-> index,
     epoch |-> group_epoch,
     capacity |-> GROUP_MAX_CAPACITY,
     size |-> NumSigners,
     threshold |-> DEFAULT_MINIMUM_THRESHOLD,
     state |-> TRUE,
     public_key |-> group_epoch,
     members |-> [m \in Signers |-> [index |-> m - 1, partial_public_key |-> m]],
     committers |-> SetToSeq(Signers),
     commit_cache |-> EmptyMap]

RelayedGroups == {AdapterGroup(1, e) : e \in 1..MaxRelayEpoch} \cup {AdapterGroup(2, 1)}

InitAdapter ==
    /\ Constructed
    /\ observed = {"cancel_invalid_relay_confirmation_task"}

AdapterSetInitialGroup ==
    \E id \in {AdminAddress, 1}, group \in {Serialized(AdapterGroup(1, 1)), <<>>} :
        set_initial_group(id, group)

\* The relays of the committer 0x1 of group 1, signed with the key of
\* group 1, and the calls with one argument wrong: a node that is no
\* committer, a relayer group that does not exist, bytes that are no group,
\* a signature that does not verify.
FulfillRelayCalls ==
    LET key == IF 1 \in DOMAIN adapter.groups THEN adapter.groups[1].public_key ELSE 0
    IN  {<<1, 1, i, ThresholdSign(key, Serialized(g)), Serialized(g)>> :
            i \in 1..MaxRelays, g \in RelayedGroups}
        \cup {<<NumSigners + 1, 1, 1, ThresholdSign(key, Serialized(g)), Serialized(g)>> :
                 g \in {AdapterGroup(1, MaxRelayEpoch)}}
        \cup {<<1, 2, 1, ThresholdSign(key, Serialized(g)), Serialized(g)>> :
                 g \in {AdapterGroup(1, MaxRelayEpoch)}}
        \cup {<<1, 1, 1, ThresholdSign(key, <<>>), <<>> >>}
        \cup {<<1, 1, 1, Garbage(Serialized(g)), Serialized(g)>> :
                 g \in {AdapterGroup(1, MaxRelayEpoch)}}

AdapterFulfillRelay ==
    /\ adapter.relayed_group_confirmation_count < MaxRelays
    /\ \E call \in FulfillRelayCalls :
           fulfill_relay(call[1], call[2], call[3], call[4], call[5])

AdapterCancel ==
    \E task_index \in 0..MaxRelays :
        cancel_invalid_relay_confirmation_task(1, task_index)

\* GroupRelayConfirmation {group, status}; status is_success as a Boolean.
GroupRelayConfirmation(group, status) == [group |-> group, status |-> status]

\* The confirmations of a relay task by the relayed group, signed with the
\* group's current key: of the relayed group or of another one, as success
\* or as complaint; and a confirmation whose signature does not verify.
ConfirmRelayCalls ==
    LET key == IF 1 \in DOMAIN adapter.groups THEN adapter.groups[1].public_key ELSE 0
    IN  {<<1, i, Serialized(GroupRelayConfirmation(g, status)),
           ThresholdSign(key, Serialized(GroupRelayConfirmation(g, status)))>> :
            i \in 0..MaxRelays, g \in RelayedGroups, status \in BOOLEAN}
        \cup {<<1, i, Serialized(GroupRelayConfirmation(g, TRUE)),
                Garbage(Serialized(GroupRelayConfirmation(g, TRUE)))>> :
                 i \in {0}, g \in {AdapterGroup(1, MaxRelayEpoch)}}
        \cup {<<1, 0, <<>>, ThresholdSign(key, <<>>)>>}

AdapterConfirmRelay ==
    \E call \in ConfirmRelayCalls :
        confirm_relay(call[1], call[2], call[3], call[4])

AdapterRequestRandomness ==
    /\ adapter.signature_count < MaxAdapterRequests
    /\ adapter_request_randomness("m")

\* A validation window is mined at once from the first block, single
\* blocks after it.
AdapterMine ==
    \E block_number \in {IF adapter.block_height = 100
                         THEN RELAY_CONFIRMATION_VALIDATION_WINDOW ELSE 1} :
        /\ adapter.block_height + block_number <= MaxAdapterHeight
        /\ adapter_mine(block_number)

NextAdapter ==
    \/ AdapterSetInitialGroup
    \/ AdapterFulfillRelay
    \/ AdapterCancel
    \/ AdapterConfirmRelay
    \/ AdapterRequestRandomness
    \/ AdapterMine

SpecAdapter == InitAdapter /\ [][NextAdapter]_vars

\* ------------------------------------------------------------ end of grouping
\* NumGroupingNodes nodes register one after the other before the first
\* block is mined. The processes of the first NumRunningNodes of them keep
\* running: each mines, receives the DKG task of the group, commits its
\* output and runs the EndGroupingListener of the round. The other nodes
\* have stopped after registering and commit nothing. The outcomes of
\* commit_dkg and check_dkg_state are observed.
GroupingNodes == 1..NumGroupingNodes

RunningNodes == 1..NumRunningNodes

\* main of node_client.rs: the caches as constructed, no listener spawned
\* by the StartingGroupingListener yet.
InitGrouping ==
    /\ ContractsConstructed
    /\ observed = {"commit_dkg", "check_dkg_state"}
    /\ block_cache = [n \in RunningNodes |-> 0]
    /\ group_cache = [n \in RunningNodes |-> NewGroupInfoCache]
    /\ committer_cache = [n \in RunningNodes |-> EmptyMap]
    /\ bls_tasks_cache = [n \in RunningNodes |-> <<>>]
    /\ listeners = [n \in RunningNodes |-> NewListeners]

GroupingRegister ==
    /\ RegisterInOrder(GroupingNodes)
    /\ UNCHANGED node_vars

GroupingBlockListener(n) ==
    /\ GroupingNodes \subseteq DOMAIN nodes
    /\ block_height < MaxGroupingHeight
    /\ MockBlockListener(n)

GroupingPoll(n) ==
    \E l \in listeners[n].end_grouping : EndGroupingPoll(n, l)

GroupingTimeout(n) ==
    \E l \in listeners[n].end_grouping : EndGroupingTimeout(n, l)

NextGrouping ==
    \/ GroupingRegister
    \/ \E n \in RunningNodes : GroupingBlockListener(n)
    \/ \E n \in RunningNodes : StartingGroupingReceive(n)
    \/ \E n \in RunningNodes : StartingGroupingHandleOk(n)
    \/ \E n \in RunningNodes : StartingGroupingHandleErr(n)
    \/ \E n \in RunningNodes : GroupingPoll(n)
    \/ \E n \in RunningNodes : GroupingTimeout(n)

SpecGrouping == InitGrouping /\ [][NextGrouping]_vars

\* Every task of a running node is scheduled again and again: the block
\* listener and the listeners of the grouping sleep between their turns
\* and return to them.
FairGrouping ==
    \A n \in RunningNodes :
        /\ WF_vars(GroupingBlockListener(n))
        /\ WF_vars(StartingGroupingReceive(n))
        /\ WF_vars(StartingGroupingHandleOk(n) \/ StartingGroupingHandleErr(n))
        /\ WF_vars(GroupingPoll(n))
        /\ WF_vars(GroupingTimeout(n))

SpecGroupingFair == SpecGrouping /\ FairGrouping

\* ------------------------------------------------------------ aggregation
\* NumGroupingNodes nodes register one after the other before the first
\* block is mined. The processes of the first NumRunningNodes nodes run
\* all their listeners; the other nodes commit the honest output of the
\* DKG once each, send their partial signatures of the pending signature
\* tasks to the committer servers of the running nodes, node 0x2 may
\* fulfil a pending task itself, and the last node may quit once the group
\* is ready. A user requests randomness MaxAggregationRequests times. The
\* runs end at block MaxAggregationHeight, before the deadline of an
\* EndGroupingListener. The outcomes of commit_dkg and fulfill_randomness
\* are observed.
OtherNodes == GroupingNodes \ RunningNodes

InitAggregation ==
    /\ ContractsConstructed
    /\ observed = {"commit_dkg", "fulfill_randomness"}
    /\ block_cache = [n \in RunningNodes |-> 0]
    /\ group_cache = [n \in RunningNodes |-> NewGroupInfoCache]
    /\ committer_cache = [n \in RunningNodes |-> EmptyMap]
    /\ bls_tasks_cache = [n \in RunningNodes |-> <<>>]
    /\ listeners = [n \in RunningNodes |-> NewListeners]

AggregationRegister ==
    /\ \E id \in GroupingNodes \ DOMAIN nodes :
           /\ \A other \in GroupingNodes : other < id => other \in DOMAIN nodes
           /\ node_register(id)
    /\ UNCHANGED node_vars

AggregationQuit ==
    /\ \E i \in DOMAIN groups : groups[i].state
    /\ NumGroupingNodes \in DOMAIN nodes
    /\ nodes[NumGroupingNodes].state
    /\ node_quit(NumGroupingNodes)
    /\ UNCHANGED node_vars

AggregationCommitDkg ==
    /\ \E call \in CommitDkgCalls(OtherNodes, {HonestCommit}) :
           /\ call[1] \in DOMAIN groups[call[2]].members
           /\ call[1] \notin DOMAIN groups[call[2]].commit_cache
           /\ commit_dkg(call[1], call[2], call[3], call[4], call[5], call[6])
    /\ UNCHANGED node_vars

AggregationBlockListener(n) ==
    /\ GroupingNodes \subseteq DOMAIN nodes
    /\ block_height < MaxAggregationHeight
    /\ MockBlockListener(n)

AggregationRequestRandomness ==
    /\ signature_count < MaxAggregationRequests
    /\ request_randomness("m")
    /\ UNCHANGED node_vars

AggregationPartialSignature ==
    \E n \in RunningNodes, m \in OtherNodes \cap DOMAIN nodes, task \in Range(pending_signature_tasks) :
        /\ nodes[m].state
        /\ \E partial_signature \in {partial_sign(m, task.message), Garbage(task.message)} :
               commit_partial_signature(n, m, task.message, task.index, partial_signature)

AggregationFulfillByOther ==
    /\ \E i \in DOMAIN groups, task \in Range(pending_signature_tasks) :
           fulfill_randomness(2, i, task.index,
                              ThresholdSign(groups[i].public_key, task.message),
                              PartialSignatures(DOMAIN groups[i].members, task.message, TRUE))
    /\ UNCHANGED node_vars

AggregationSnapshot(n) ==
    \E l \in listeners[n].signature_aggregation : SignatureAggregationSnapshot(n, l)

AggregationCheck(n) ==
    \E l \in listeners[n].signature_aggregation : SignatureAggregationCheck(n, l)

AggregationFulfill(n) ==
    \E l \in listeners[n].signature_aggregation : SignatureAggregationFulfill(n, l)

NextAggregation ==
    \/ AggregationRegister
    \/ AggregationQuit
    \/ AggregationCommitDkg
    \/ AggregationRequestRandomness
    \/ AggregationPartialSignature
    \/ AggregationFulfillByOther
    \/ \E n \in RunningNodes : AggregationBlockListener(n)
    \/ \E n \in RunningNodes : StartingGroupingReceive(n)
    \/ \E n \in RunningNodes : StartingGroupingHandleOk(n)
    \/ \E n \in RunningNodes : StartingGroupingHandleErr(n)
    \/ \E n \in RunningNodes : GroupingPoll(n)
    \/ \E n \in RunningNodes : ListenersAbort(n)
    \/ \E n \in RunningNodes : BLSTaskReceive(n)
    \/ \E n \in RunningNodes : AggregationSnapshot(n)
    \/ \E n \in RunningNodes : AggregationCheck(n)
    \/ \E n \in RunningNodes : AggregationFulfill(n)

SpecAggregation == InitAggregation /\ [][NextAggregation]_vars

\* Every task of a running node is scheduled again and again; the other
\* nodes, the user and the network owe nothing.
FairAggregation ==
    \A n \in RunningNodes :
        /\ WF_vars(AggregationBlockListener(n))
        /\ WF_vars(StartingGroupingReceive(n))
        /\ WF_vars(StartingGroupingHandleOk(n) \/ StartingGroupingHandleErr(n))
        /\ WF_vars(GroupingPoll(n))
        /\ WF_vars(ListenersAbort(n))
        /\ WF_vars(BLSTaskReceive(n))
        /\ WF_vars(AggregationSnapshot(n))
        /\ WF_vars(AggregationCheck(n))
        /\ WF_vars(AggregationFulfill(n))

SpecAggregationFair == SpecAggregation /\ FairAggregation

\* ------------------------------------------------------------ properties
ReadyGroups == {i \in DOMAIN groups : groups[i].state}

\* C1: in every reachable state, every group with ready = true has
\* size = |members| and size >= 3.
C1_ReadyGroupSize ==
    \A i \in ReadyGroups :
        /\ groups[i].size = Cardinality(DOMAIN groups[i].members)
        /\ groups[i].size >= DEFAULT_MINIMUM_THRESHOLD

\* C2: in every reachable state, every group with ready = true has exactly
\* max(3, threshold) committers and a non-empty public key.
C2_ReadyGroupCommitters ==
    \A i \in ReadyGroups :
        /\ Len(groups[i].committers) = Max(DEFAULT_COMMITTERS_SIZE, groups[i].threshold)
        /\ groups[i].public_key # 0

\* C3: in every reachable state, every committer of a group with
\* ready = true is a member of that group.
C3_CommittersAreMembers ==
    \A i \in ReadyGroups :
        Range(groups[i].committers) \subseteq DOMAIN groups[i].members

\* C4: in every reachable state, every group with ready = true has
\* threshold = max(3, minimum_threshold(size)) for its current size.
C4_ReadyGroupThreshold ==
    \A i \in ReadyGroups :
        groups[i].threshold =
            Max(DEFAULT_MINIMUM_THRESHOLD, minimum_threshold(groups[i].size))

C6_PendingTasksValid ==
    \A i \in DOMAIN pending_signature_tasks :
        pending_signature_tasks[i].group_index \in valid_group_indices

\* C6 as amended: every task enters pending_signature_tasks with the
\* group_index of a group that is ready at that moment, and every pending
\* task names an existing group for as long as it is pending.
C6_PendingTasksAssignedValid ==
    [][/\ \A i \in DOMAIN pending_signature_tasks' \ DOMAIN pending_signature_tasks :
              /\ pending_signature_tasks'[i].group_index \in DOMAIN groups
              /\ groups[pending_signature_tasks'[i].group_index].state
       /\ \A i \in DOMAIN pending_signature_tasks' :
              pending_signature_tasks'[i].group_index \in DOMAIN groups']_vars

\* A task is still pending while its group, having lost a member, is no
\* longer ready.
C6_Witness ==
    \E i \in DOMAIN pending_signature_tasks :
        LET g == pending_signature_tasks[i].group_index
        IN  /\ g \in DOMAIN groups
            /\ ~groups[g].state
            /\ groups[g].public_key # 0
            /\ Cardinality(DOMAIN groups[g].members) < DEFAULT_MINIMUM_THRESHOLD

\* C7: whenever fulfill_randomness(id, gi, si, sig, partials) returns Ok,
\* in the resulting state last_output is the hash of sig, task si is not
\* pending and get_signature_task_completion_state(si) is true.
C7_FulfillOutput ==
    (result.op = "fulfill_randomness" /\ result.ret = "Ok") =>
        /\ last_output = calculate_hash(SignatureBytes(result.args[4]))
        /\ result.args[3] \notin DOMAIN pending_signature_tasks
        /\ get_signature_task_completion_state(result.args[3])

\* fulfill_randomness has just returned Ok.
C7_Witness ==
    /\ result.op = "fulfill_randomness"
    /\ result.ret = "Ok"
    /\ result.args[3] \in DOMAIN verifiable_signature_rewards

\* A fulfill_randomness for task index i has succeeded: only that call
\* inserts a verifiable reward and only it removes a pending task.
Fulfilled(i) ==
    \/ i \in DOMAIN verifiable_signature_rewards
    \/ get_signature_task_completion_state(i)

\* C8: after the first fulfill_randomness that succeeds for a task index,
\* the index stays complete and every later fulfill_randomness for it
\* returns TaskNotFound and changes neither last_output nor any reward
\* balance.
C8_OnlyFirstFulfillSucceeds ==
    [][\A i \in 0..(signature_count - 1) :
          Fulfilled(i) =>
              /\ get_signature_task_completion_state(i)'
              /\ (result'.op = "fulfill_randomness" /\ result'.args[3] = i) =>
                     /\ result'.ret = "TaskNotFound"
                     /\ last_output' = last_output
                     /\ rewards' = rewards]_vars

\* A committer of the group that fulfilled a task has called
\* fulfill_randomness for it again and got TaskNotFound.
C8_Witness ==
    /\ result.op = "fulfill_randomness"
    /\ result.ret = "TaskNotFound"
    /\ result.args[3] \in DOMAIN verifiable_signature_rewards
    /\ result.args[2] \in DOMAIN groups
    /\ result.args[1] \in Range(groups[result.args[2]].committers)

\* C9: for a pending task assigned to group g at height h, a
\* fulfill_randomness that names another group returns TaskStillExclusive
\* and changes nothing while block_height <= h + 10, and does not return
\* TaskStillExclusive once block_height >= h + 11.
C9_ExclusiveWindow ==
    [][\A i \in DOMAIN pending_signature_tasks :
          LET task == pending_signature_tasks[i]
          IN  (/\ result'.op = "fulfill_randomness"
               /\ result'.args[3] = i
               /\ result'.args[2] # task.group_index) =>
                  IF block_height <= task.assignment_block_height
                                     + SIGNATURE_TASK_EXCLUSIVE_WINDOW
                  THEN /\ result'.ret = "TaskStillExclusive"
                       /\ UNCHANGED <<block_height, epoch, signature_count,
                                      last_output, last_group_index, groups,
                                      nodes, rewards, pending_signature_tasks,
                                      verifiable_signature_rewards, dkg_task,
                                      signature_task, coordinators>>
                  ELSE result'.ret # "TaskStillExclusive"]_vars

\* A committer of a ready group other than the assigned one has fulfilled
\* the task, after the window.
C9_Witness ==
    /\ result.op = "fulfill_randomness"
    /\ result.ret = "Ok"
    /\ result.args[3] \in DOMAIN verifiable_signature_rewards
    /\ LET reward == verifiable_signature_rewards[result.args[3]]
       IN  /\ result.args[2] # reward.signature_task.group_index
           /\ reward.signature_task.group_index \in ReadyGroups
           /\ result.args[2] \in ReadyGroups
           /\ block_height > reward.signature_task.assignment_block_height
                             + SIGNATURE_TASK_EXCLUSIVE_WINDOW

C11_QuitRejectedWhileCommitter ==
    [][\A id \in DOMAIN nodes :
          (result' # NoResult /\ result'.op = "node_quit" /\ result'.args = <<id>>) =>
              LET held == \E i \in DOMAIN verifiable_signature_rewards :
                              /\ verifiable_signature_rewards[i].committer = id
                              /\ verifiable_signature_rewards[i].expiration_block_height
                                     >= block_height
              IN  /\ held => /\ result'.ret = "VerifiableSignatureRewardAsCommitterExisted"
                             /\ nodes' = nodes
                             /\ groups' = groups
                  /\ ~held => result'.ret # "VerifiableSignatureRewardAsCommitterExisted"]_vars

\* An active committer in its group was refused at the expiration block of
\* its reward.
C11_Witness ==
    /\ result # NoResult
    /\ result.op = "node_quit"
    /\ result.ret = "VerifiableSignatureRewardAsCommitterExisted"
    /\ \E i \in DOMAIN verifiable_signature_rewards :
           /\ verifiable_signature_rewards[i].committer = result.args[1]
           /\ verifiable_signature_rewards[i].expiration_block_height = block_height
           /\ nodes[result.args[1]].state
           /\ \E g \in DOMAIN groups : result.args[1] \in DOMAIN groups[g].members

\* C12: a successful commit_dkg on a group that is ready adds the caller's
\* entry to the commit cache and sets the caller's partial public key, and
\* changes nothing else of any group (state, public key, size, threshold,
\* member set, committers, the other members' partial public keys) and
\* nothing of any node.
C12_ReadyCommitFrame ==
    [][\A i \in DOMAIN groups :
          (/\ groups[i].state
           /\ i \in DOMAIN groups'
           /\ DOMAIN groups[i].commit_cache \subseteq DOMAIN groups'[i].commit_cache
           /\ DOMAIN groups[i].commit_cache # DOMAIN groups'[i].commit_cache) =>
              /\ \E id \in DOMAIN groups'[i].commit_cache \ DOMAIN groups[i].commit_cache :
                     /\ id \in DOMAIN groups[i].members
                     /\ groups' = [groups EXCEPT
                            ![i].commit_cache = MapPut(@, id, groups'[i].commit_cache[id]),
                            ![i].members[id].partial_public_key =
                                groups'[i].commit_cache[id].partial_public_key]
              /\ nodes' = nodes]_vars

\* A member of a group made ready by commits with a disqualified list has
\* just committed another group public key and no disqualified node, and
\* holds its partial public key.
C12_Witness ==
    \E i \in ReadyGroups :
        \E a, b \in DOMAIN groups[i].commit_cache \cap DOMAIN groups[i].members :
            /\ result.op = "commit_dkg" /\ result.ret = "Ok" /\ result.args[1] = b
            /\ groups[i].commit_cache[a].commit_result.disqualified_nodes # <<>>
            /\ groups[i].commit_cache[b].commit_result.disqualified_nodes = <<>>
            /\ groups[i].commit_cache[b].commit_result.public_key # groups[i].public_key
            /\ Cardinality(CommitClass(groups[i], groups[i].commit_cache[a].commit_result))
                  >= groups[i].threshold
            /\ groups[i].members[b].partial_public_key = OwnPartialPublicKey(b)
            /\ groups[i].public_key = groups[i].commit_cache[a].commit_result.public_key

\* C13: a commit_dkg call switches a group from not ready to ready only if,
\* with the caller's commit recorded, one commit result of the group's
\* current epoch is held by strictly more members than any other and by at
\* least threshold members; a commit for another epoch than the group's is
\* rejected with GroupEpochObsolete and changes no group; the commit cache
\* is empty after every change of the group's epoch.
C13_ReadyOnlyByMajority ==
    [][/\ \A i \in DOMAIN groups :
             (result'.op = "commit_dkg" /\ ~groups[i].state /\ groups'[i].state) =>
                 \E m \in DOMAIN groups'[i].commit_cache :
                     LET r == groups'[i].commit_cache[m].commit_result
                     IN  /\ r.group_epoch = groups[i].epoch
                         /\ groups'[i].epoch = groups[i].epoch
                         /\ Cardinality(CommitClass(groups'[i], r)) >= groups[i].threshold
                         /\ \A n \in DOMAIN groups'[i].commit_cache :
                                groups'[i].commit_cache[n].commit_result # r =>
                                    Cardinality(CommitClass(groups'[i],
                                        groups'[i].commit_cache[n].commit_result))
                                      < Cardinality(CommitClass(groups'[i], r))
       /\ result'.op = "commit_dkg" =>
             LET a == result'.args
             IN  (/\ a[2] \in DOMAIN groups
                  /\ IsCurvePoint(a[4]) /\ IsCurvePoint(a[5])
                  /\ a[1] \in DOMAIN groups[a[2]].members
                  /\ a[3] # groups[a[2]].epoch) =>
                     /\ result'.ret = "GroupEpochObsolete"
                     /\ groups' = groups
       /\ \A i \in DOMAIN groups :
             groups'[i].epoch # groups[i].epoch => groups'[i].commit_cache = EmptyMap
       /\ \A i \in DOMAIN groups' : \A m \in DOMAIN groups'[i].commit_cache :
             groups'[i].commit_cache[m].commit_result.group_epoch = groups'[i].epoch]_vars

\* The caller's commit has just brought its commit result to threshold
\* members of a group at a later epoch than its first, while another member
\* holds a different commit result: the group is ready with elected
\* committers.
C13_Witness ==
    /\ result.op = "commit_dkg" /\ result.ret = "Ok"
    /\ \E i \in ReadyGroups :
           /\ result.args[2] = i
           /\ result.args[1] \in DOMAIN groups[i].commit_cache
           /\ groups[i].epoch > 1
           /\ groups[i].committers # <<>>
           /\ Cardinality(CommitClass(groups[i],
                  groups[i].commit_cache[result.args[1]].commit_result)) = groups[i].threshold
           /\ Cardinality(DOMAIN groups[i].commit_cache) > groups[i].threshold

\* C14: a check_dkg_state call that succeeds on a group for which fewer
\* members than its threshold have committed wipes the group: size 0, no
\* members, every former member slashed DISQUALIFIED_NODE_PENALTY, the
\* caller credited COORDINATOR_STATE_TRIGGER_REWARD and the Coordinator
\* removed.
C14_TimeoutWipesGroup ==
    [][\A i \in DOMAIN groups :
          (/\ result'.op = "check_dkg_state" /\ result'.ret = "Ok"
           /\ result'.args[2] = i
           /\ Cardinality(DOMAIN groups[i].commit_cache) < groups[i].threshold) =>
              LET caller == result'.args[1]
              IN  /\ groups'[i].size = 0
                  /\ groups'[i].members = EmptyMap
                  /\ \A m \in DOMAIN groups[i].members :
                         nodes'[m].staking = nodes[m].staking - DISQUALIFIED_NODE_PENALTY
                  /\ rewards'[caller] =
                         (IF caller \in DOMAIN rewards THEN rewards[caller] ELSE 0)
                         + COORDINATOR_STATE_TRIGGER_REWARD
                  /\ i \notin DOMAIN coordinators']_vars

\* C15: check_dkg_state(caller, gi) returns Ok only if group gi exists, is
\* not ready and has a Coordinator whose phases are over; any other return
\* is GroupNotExisted, GroupActivated, CoordinatorNotExisted or
\* CoordinatorNotEnded and comes with no change of the Controller. A
\* success credits the caller exactly COORDINATOR_STATE_TRIGGER_REWARD and
\* leaves the group without Coordinator, and a call for a group that is not
\* ready and has no Coordinator returns CoordinatorNotExisted.
C15_CheckDkgStateOutcome ==
    [][result'.op = "check_dkg_state" =>
          LET caller == result'.args[1]
              gi == result'.args[2]
              ended == /\ gi \in DOMAIN groups
                       /\ ~groups[gi].state
                       /\ gi \in DOMAIN coordinators
                       /\ ~CoordinatorInPhase(coordinators[gi])
          IN  /\ result'.ret = "Ok" =>
                     /\ ended
                     /\ caller \in DOMAIN rewards'
                     /\ rewards'[caller] =
                            (IF caller \in DOMAIN rewards THEN rewards[caller] ELSE 0)
                            + COORDINATOR_STATE_TRIGGER_REWARD
                     /\ \A other \in DOMAIN rewards \ {caller} :
                            other \in DOMAIN rewards' /\ rewards'[other] = rewards[other]
                     /\ gi \notin DOMAIN coordinators'
              /\ result'.ret # "Ok" =>
                     /\ ~ended
                     /\ result'.ret \in {"GroupNotExisted", "GroupActivated",
                                         "CoordinatorNotExisted", "CoordinatorNotEnded"}
                     /\ UNCHANGED <<block_height, epoch, signature_count, last_output,
                                    last_group_index, groups, nodes, rewards,
                                    pending_signature_tasks, verifiable_signature_rewards,
                                    dkg_task, signature_task, coordinators>>
              /\ (gi \in DOMAIN groups /\ ~groups[gi].state /\ gi \notin DOMAIN coordinators) =>
                     result'.ret = "CoordinatorNotExisted"]_vars

\* An address without a node was credited the trigger reward once, and its
\* next call for the group, still not ready, found no Coordinator.
C15_Witness ==
    /\ result.op = "check_dkg_state"
    /\ result.ret = "CoordinatorNotExisted"
    /\ result.args[1] \notin DOMAIN nodes
    /\ result.args[1] \in DOMAIN rewards
    /\ rewards[result.args[1]] = COORDINATOR_STATE_TRIGGER_REWARD
    /\ ~groups[result.args[2]].state

\* C16: when a commit_dkg call makes a group ready with a majority commit
\* whose disqualified list D consists of members of the group, the group's
\* size decreases by |D|, the nodes of D leave the members map, each has
\* its stake reduced by DISQUALIFIED_NODE_PENALTY and is inactive, no other
\* node's stake or state changes, and no other group's members or epoch
\* change.
C16_DisqualifiedRemoved ==
    [][\A i \in DOMAIN groups :
          (~groups[i].state /\ groups'[i].state) =>
              LET identical_commit ==
                      get_strictly_majority_identical_commitment_result(groups'[i]).commit[1]
                  D == Range(identical_commit.disqualified_nodes)
              IN  D \subseteq DOMAIN groups[i].members =>
                      /\ groups'[i].size = groups[i].size - Cardinality(D)
                      /\ DOMAIN groups'[i].members = DOMAIN groups[i].members \ D
                      /\ \A d \in D :
                             /\ nodes'[d].staking = nodes[d].staking - DISQUALIFIED_NODE_PENALTY
                             /\ ~nodes'[d].state
                      /\ \A n \in DOMAIN nodes \ D : nodes'[n] = nodes[n]
                      /\ Len(groups') = Len(groups)
                      /\ \A j \in DOMAIN groups \ {i} :
                             /\ DOMAIN groups'[j].members = DOMAIN groups[j].members
                             /\ groups'[j].epoch = groups[j].epoch]_vars

\* Beside another group with members, a group was made ready by commits
\* that disqualify two of its members: it has elected committers, two
\* members less than commits, and the two nodes are inactive with stake
\* NODE_STAKING_AMOUNT - DISQUALIFIED_NODE_PENALTY.
C16_Witness ==
    \E i \in ReadyGroups, j \in DOMAIN groups :
        /\ i # j
        /\ groups[j].members # EmptyMap
        /\ groups[i].committers # <<>>
        /\ \E m \in DOMAIN groups[i].commit_cache :
               LET D == Range(groups[i].commit_cache[m].commit_result.disqualified_nodes)
               IN  /\ Cardinality(D) = 2
                   /\ Cardinality(CommitClass(groups[i],
                          groups[i].commit_cache[m].commit_result)) >= groups[i].threshold
                   /\ D \cap DOMAIN groups[i].members = {}
                   /\ \A d \in D :
                          /\ ~nodes[d].state
                          /\ nodes[d].staking = NODE_STAKING_AMOUNT - DISQUALIFIED_NODE_PENALTY

\* C17: when some partial signature recorded in verifiable reward si fails
\* verification under its member's partial public key,
\* challenge_verifiable_reward(challenger, si) returns Ok, reduces the
\* committer's stake by COMMITTER_PENALTY_PER_SIGNATURE, increases
\* rewards[challenger] by CHALLENGE_REWARD_PER_SIGNATURE and removes
\* reward si.
C17_ChallengeSlashesCommitter ==
    [][result'.op = "challenge_verifiable_reward" =>
          LET challenger == result'.args[1]
              si == result'.args[2]
          IN  (/\ si \in DOMAIN verifiable_signature_rewards
               /\ LET reward == verifiable_signature_rewards[si]
                  IN  \E m \in DOMAIN reward.partial_signatures :
                          /\ IsCurvePoint(reward.group.members[m].partial_public_key)
                          /\ ~PartialVerify(reward.group.members[m].partial_public_key,
                                            reward.signature_task.message,
                                            reward.partial_signatures[m])) =>
                  LET committer == verifiable_signature_rewards[si].committer
                  IN  /\ result'.ret = "Ok"
                      /\ nodes'[committer].staking =
                             nodes[committer].staking - COMMITTER_PENALTY_PER_SIGNATURE
                      /\ challenger \in DOMAIN rewards'
                      /\ rewards'[challenger] =
                             (IF challenger \in DOMAIN rewards THEN rewards[challenger] ELSE 0)
                             + CHALLENGE_REWARD_PER_SIGNATURE
                      /\ si \notin DOMAIN verifiable_signature_rewards']_vars

\* C18: a challenge_verifiable_reward call that returns
\* SignatureRewardVerifiedSuccessfully has changed no node's stake or active
\* state and no reward balance, and a call that reduces a node's stake
\* returns Ok.
C18_SlashOrVerified ==
    [][result'.op = "challenge_verifiable_reward" =>
          /\ result'.ret = "SignatureRewardVerifiedSuccessfully" =>
                 /\ DOMAIN nodes' = DOMAIN nodes
                 /\ \A n \in DOMAIN nodes :
                        /\ nodes'[n].staking = nodes[n].staking
                        /\ nodes'[n].state = nodes[n].state
                 /\ rewards' = rewards
          /\ (\E n \in DOMAIN nodes : nodes'[n].staking # nodes[n].staking) =>
                 result'.ret = "Ok"]_vars

\* A challenge has returned Ok: the reward is gone, its challenger, an
\* address without a node, holds CHALLENGE_REWARD_PER_SIGNATURE, and a node
\* has lost COMMITTER_PENALTY_PER_SIGNATURE and is inactive.
C18_Witness ==
    /\ result.op = "challenge_verifiable_reward"
    /\ result.ret = "Ok"
    /\ result.args[1] \notin DOMAIN nodes
    /\ result.args[2] \notin DOMAIN verifiable_signature_rewards
    /\ rewards[result.args[1]] = CHALLENGE_REWARD_PER_SIGNATURE
    /\ \E n \in DOMAIN nodes :
           /\ nodes[n].staking = NODE_STAKING_AMOUNT - COMMITTER_PENALTY_PER_SIGNATURE
           /\ ~nodes[n].state

\* C19: emit_group_event executed on any group of a reachable Controller
\* increases the group's epoch by exactly 1, leaves its commit_cache and
\* its committers empty and installs for it a Coordinator whose epoch is
\* the group's new epoch and whose start block is the current block
\* height; and every transaction that changes a group's epoch leaves the
\* group with a higher epoch, an empty commit_cache and no committers.
C19_EmitGroupEvent ==
    [][/\ \A i \in DOMAIN groups :
             LET t == emit_group_event(Current, i)
             IN  /\ t.groups[i].epoch = groups[i].epoch + 1
                 /\ t.groups[i].commit_cache = EmptyMap
                 /\ t.groups[i].committers = <<>>
                 /\ i \in DOMAIN t.coordinators
                 /\ t.coordinators[i].epoch = t.groups[i].epoch
                 /\ t.coordinators[i].start_block = block_height
                 /\ t.coordinators[i].block_height = block_height
       /\ \A i \in DOMAIN groups :
             groups'[i].epoch # groups[i].epoch =>
                 /\ groups'[i].epoch > groups[i].epoch
                 /\ groups'[i].commit_cache = EmptyMap
                 /\ groups'[i].committers = <<>>
                 /\ i \in DOMAIN coordinators' =>
                        /\ coordinators'[i].epoch = groups'[i].epoch
                        /\ coordinators'[i].start_block = block_height]_vars

\* After blocks were mined, a group that had commits and committers is at a
\* later epoch with neither, and its Coordinator has the group's epoch and
\* was started at the current block height.
C19_Witness ==
    \E i \in DOMAIN groups :
        /\ block_height > INITIAL_BLOCK_HEIGHT
        /\ groups[i].state
        /\ groups[i].epoch > 1
        /\ groups[i].commit_cache = EmptyMap
        /\ groups[i].committers = <<>>
        /\ i \in DOMAIN coordinators
        /\ coordinators[i].epoch = groups[i].epoch
        /\ coordinators[i].start_block = block_height

\* C20: no transaction decreases the epoch of a group, and every
\* transaction that changes the member set of a group and leaves the group
\* with size >= 3 strictly increases the group's epoch.
C20_MembershipChangeBumpsEpoch ==
    [][\A i \in DOMAIN groups :
          /\ groups'[i].epoch >= groups[i].epoch
          /\ (/\ DOMAIN groups'[i].members # DOMAIN groups[i].members
              /\ groups'[i].size >= DEFAULT_MINIMUM_THRESHOLD) =>
                 groups'[i].epoch > groups[i].epoch]_vars

\* C21: in every reachable state, every node with state = true has
\* staking >= NODE_STAKING_AMOUNT.
C21_ActiveNodesStaked ==
    \A n \in DOMAIN nodes : nodes[n].state => nodes[n].staking >= NODE_STAKING_AMOUNT

\* A node was slashed below NODE_STAKING_AMOUNT and is inactive, beside a
\* node that is active.
C21_Witness ==
    /\ \E n \in DOMAIN nodes : nodes[n].staking < NODE_STAKING_AMOUNT /\ ~nodes[n].state
    /\ \E n \in DOMAIN nodes : nodes[n].state

\* C22: request_randomness returns NoVaildGroup and creates no task when no
\* group is ready; otherwise it returns Ok, the new task has index = the
\* previous signature_count, above every index handed out before, and the
\* first ready group index met from last_group_index + 1 cyclically modulo
\* groups.len() + 1, the task is added to the pending tasks, signature_count
\* grows by 1 and last_group_index is the chosen group.
C22_RequestRoundRobin ==
    [][result'.op = "request_randomness" =>
          IF valid_group_indices = {}
          THEN /\ result'.ret = "NoVaildGroup"
               /\ UNCHANGED <<pending_signature_tasks, signature_count,
                              signature_task, last_group_index>>
          ELSE /\ result'.ret = "Ok"
               /\ signature_count' = signature_count + 1
               /\ \A i \in DOMAIN pending_signature_tasks : i < signature_count
               /\ DOMAIN pending_signature_tasks' =
                      DOMAIN pending_signature_tasks \cup {signature_count}
               /\ \A i \in DOMAIN pending_signature_tasks :
                      pending_signature_tasks'[i] = pending_signature_tasks[i]
               /\ LET task == pending_signature_tasks'[signature_count]
                      n == Len(groups) + 1
                  IN  /\ task.index = signature_count
                      /\ task.assignment_block_height = block_height
                      /\ last_group_index' = task.group_index
                      /\ \E k \in 1..n :
                             /\ task.group_index = (last_group_index + k) % n
                             /\ task.group_index \in valid_group_indices
                             /\ \A j \in 1..(k - 1) :
                                    (last_group_index + j) % n \notin valid_group_indices]_vars

\* Three tasks are pending with indices 0, 1 and 2: the first went to
\* group 1, the second to group 2 and the third, past the end of the
\* groups, to group 1 again.
C22_Witness ==
    /\ result.op = "request_randomness" /\ result.ret = "Ok"
    /\ DOMAIN pending_signature_tasks = {0, 1, 2}
    /\ pending_signature_tasks[0].group_index = 1
    /\ pending_signature_tasks[1].group_index = 2
    /\ pending_signature_tasks[2].group_index = 1
    /\ last_group_index = 1

\* C23: no sequence of transactions reaches an internal assertion failure
\* (an unwrap of a missing node, group or member, an unsigned underflow of
\* a group's size or a node's stake).
C23_NoAssertionFailure == ~panicked

\* C30: in every reachable state, every group, ready or not, has size equal
\* to the number of entries of its members map.
C30_SizeIsMemberCount ==
    \A i \in DOMAIN groups : groups[i].size = Cardinality(DOMAIN groups[i].members)

\* C26: a rebalance_group(a, b) that returns true moves exactly
\* L.size - (L.size + S.size) / 2 members from the larger group L to the
\* smaller group S: the two groups together keep their number of members,
\* every moved node is afterwards a member of S and not of L, L keeps at
\* least 3 members and both groups get a group event (their epoch grows, a
\* Coordinator of that epoch is stored); a call that returns false changes
\* neither group.
C26_Larger(call) ==
    IF call.s.groups[call.b].size > call.s.groups[call.a].size THEN call.b ELSE call.a

C26_Smaller(call) ==
    IF call.s.groups[call.b].size > call.s.groups[call.a].size THEN call.a ELSE call.b

C26_Moved(call, r) ==
    DOMAIN call.s.groups[C26_Larger(call)].members
        \ DOMAIN r.s.groups[C26_Larger(call)].members

C26_Outcome(call, r) ==
    LET L == call.s.groups[C26_Larger(call)]
        S == call.s.groups[C26_Smaller(call)]
        L1 == r.s.groups[C26_Larger(call)]
        S1 == r.s.groups[C26_Smaller(call)]
    IN  IF r.ok
        THEN /\ Cardinality(C26_Moved(call, r)) = L.size - (L.size + S.size) \div 2
             /\ Cardinality(DOMAIN L1.members) + Cardinality(DOMAIN S1.members)
                    = Cardinality(DOMAIN L.members) + Cardinality(DOMAIN S.members)
             /\ C26_Moved(call, r) \subseteq DOMAIN S1.members
             /\ DOMAIN S.members \subseteq DOMAIN S1.members
             /\ DOMAIN L1.members \subseteq DOMAIN L.members
             /\ Cardinality(DOMAIN L1.members) >= 3
             /\ L1.epoch = L.epoch + 1
             /\ S1.epoch = S.epoch + 1
             /\ C26_Larger(call) \in DOMAIN r.s.coordinators
             /\ C26_Smaller(call) \in DOMAIN r.s.coordinators
        ELSE r.s = call.s

C26_RebalanceMovesHalfTheDifference ==
    \A call \in RebalanceCalls :
        \A r \in rebalance_group(call.s, call.a, call.b) : C26_Outcome(call, r)

C26_Witness ==
    \E call \in RebalanceCalls :
        \E r \in rebalance_group(call.s, call.a, call.b) :
            r.ok /\ C26_Moved(call, r) # {}

\* C27: for every seed up to MaxSeed, every count k up to MaxCount and the
\* list I of the member indices of every group that has members,
\* choose_randomly_from_indices(seed, I, k) is evaluated to its end and
\* returns exactly min(k, |I|) values, pairwise distinct, each an element
\* of I.
C27_Chosen(seed, I, k) ==
    LET res == choose_randomly_from_indices(seed, I, k)
    IN  /\ Len(res) = IF k < Len(I) THEN k ELSE Len(I)
        /\ \A x, y \in 1..Len(res) : res[x] = res[y] => x = y
        /\ Range(res) \subseteq Range(I)

C27_ChoosesDistinctMemberIndices ==
    \A i \in DOMAIN groups :
        DOMAIN groups[i].members # {} =>
            \A seed \in 0..MaxSeed, k \in 0..MaxCount :
                C27_Chosen(seed, MemberIndices(groups[i].members), k)

\* C28: in the Adapter, while a relay confirmation task for a group g is
\* outstanding (from the successful fulfill_relay until confirm_relay or
\* cancel_invalid_relay_confirmation_task has removed every task for g),
\* g has state = false and is not among valid_group_indices, and
\* request_randomness assigns no task to g; also when two relays for g
\* under different task indices are outstanding at once.
OutstandingRelayGroups(a) ==
    {a.relayed_group_confirmation_tasks[i].relayed_group_index :
        i \in DOMAIN a.relayed_group_confirmation_tasks}

C28_SuspendedWhileRelayOutstanding ==
    [][/\ \A g \in OutstandingRelayGroups(adapter') :
              /\ ~adapter'.groups[g].state
              /\ g \notin adapter_valid_group_indices'
       /\ \A i \in DOMAIN adapter'.pending_signature_tasks
                       \ DOMAIN adapter.pending_signature_tasks :
              adapter'.pending_signature_tasks[i].group_index
                  \notin OutstandingRelayGroups(adapter)]_vars

\* C29: in the Adapter, cancel_invalid_relay_confirmation_task(task) fails
\* with RelayTaskNotFound for an unknown task; for an existing task it
\* fails with RelayConfirmationTaskStillAvailable and changes nothing while
\* block_height - assignment_block_height <= 30 and the relayed epoch is
\* greater than the target group's current epoch (the case in which
\* get_group_relay_confirmation_task_state reports Available); in every
\* other case it removes the confirmation task and its relay-cache entry
\* and sets the target group's state to true.
C29_CancelOutcome ==
    [][result'.op = "cancel_invalid_relay_confirmation_task" =>
          LET task_index == result'.args[2]
              tasks == adapter.relayed_group_confirmation_tasks
          IN  IF task_index \notin DOMAIN tasks
              THEN result'.ret = "RelayTaskNotFound" /\ adapter' = adapter
              ELSE LET task == tasks[task_index]
                       g == task.relayed_group_index
                       available ==
                           /\ adapter.block_height - task.assignment_block_height <= 30
                           /\ task.relayed_group_epoch > adapter.groups[g].epoch
                   IN  /\ available <=> get_group_relay_confirmation_task_state(task_index) = 1
                       /\ IF available
                          THEN /\ result'.ret = "RelayConfirmationTaskStillAvailable"
                               /\ adapter' = adapter
                          ELSE /\ result'.ret = "Ok"
                               /\ task_index \notin
                                      DOMAIN adapter'.relayed_group_confirmation_tasks
                               /\ task.group_relay_cache_index \notin
                                      DOMAIN adapter'.relayed_group_cache
                               /\ adapter'.groups[g].state]_vars

C29_Witness ==
    /\ result.op = "cancel_invalid_relay_confirmation_task"
    /\ result.ret = "Ok"
    /\ result.args[2] \notin DOMAIN adapter.relayed_group_confirmation_tasks
    /\ \E g \in DOMAIN adapter.groups : adapter.groups[g].state

\* C24: when the EndGroupingListener of a member node is past its deadline
\* (its local block height above assignment_block_height +
\* DEFAULT_DKG_TIMEOUT_DURATION) and the group is still not ready, the
\* round is eventually swept: the Coordinator of the group is dropped.
C24_PastDeadline(n, group_index) ==
    \E l \in listeners[n].end_grouping :
        /\ l.group_index = group_index
        /\ l.block_height > l.timeout_block_height
        /\ ~groups[group_index].state

C24_FailedRoundEventuallySwept ==
    \A n \in RunningNodes :
        C24_PastDeadline(n, 1) ~> (1 \notin DOMAIN coordinators)

\* C25: on a committer node every SignatureResultCache entry that has
\* reached threshold partial signatures is eventually processed by the
\* SignatureAggregationListener and removed from the cache.
C25_Ready(n, signature_index) ==
    /\ signature_index \in DOMAIN committer_cache[n]
    /\ Cardinality(DOMAIN committer_cache[n][signature_index].partial_signatures)
           >= committer_cache[n][signature_index].threshold

C25_Removal(n) ==
    \A signature_index \in DOMAIN committer_cache[n] :
        signature_index \notin DOMAIN committer_cache'[n] =>
            \E l \in listeners[n].signature_aggregation :
                /\ l.ready # <<>>
                /\ Head(l.ready).signature_index = signature_index
                /\ IF l.checked
                   THEN /\ result'.op = "fulfill_randomness"
                        /\ result'.args[1] = n
                        /\ result'.args[2] = Head(l.ready).group_index
                        /\ result'.args[3] = signature_index
                   ELSE /\ get_signature_task_completion_state(signature_index)
                        /\ result' = result
                        /\ pending_signature_tasks' = pending_signature_tasks

C25_Call(n) ==
    \A l \in listeners'[n].signature_aggregation \ listeners[n].signature_aggregation :
        l.checked => ~get_signature_task_completion_state(Head(l.ready).signature_index)

C31_GroupsOf(id_address) ==
    {i \in DOMAIN groups : id_address \in DOMAIN groups[i].members}

C31_MemberOfAtMostOneGroup ==
    \A id_address \in DOMAIN nodes :
        /\ Cardinality(C31_GroupsOf(id_address)) <= 1
        /\ ~nodes[id_address].state => C31_GroupsOf(id_address) = {}

\* C32: in every reachable state no two members of one group have the same
\* member index.
C32_MemberIndicesDistinct ==
    \A i \in DOMAIN groups :
        \A m1, m2 \in DOMAIN groups[i].members :
            m1 # m2 => groups[i].members[m1].index # groups[i].members[m2].index

\* ------------------------------------------------------------ capacity
\* NumCapacityNodes nodes, one more than a group holds, register one after
\* the other, and the members of a group commit honestly in the order of
\* their addresses.
CapacityNodes == 1..NumCapacityNodes

CapacityRegister ==
    /\ RegisterInOrder(CapacityNodes)
    /\ Capped(CapacityEpochs, CapacityInactive)'

CapacityCommitDkg ==
    \E call \in CommitDkgCalls(CapacityNodes, {HonestCommit}) :
        /\ call[1] \in DOMAIN groups[call[2]].members \ DOMAIN groups[call[2]].commit_cache
        /\ \A other \in DOMAIN groups[call[2]].members :
               other < call[1] => other \in DOMAIN groups[call[2]].commit_cache
        /\ commit_dkg(call[1], call[2], call[3], call[4], call[5], call[6])

NextCapacity ==
    \/ CapacityRegister
    \/ CapacityCommitDkg

SpecCapacity == Init /\ [][NextCapacity]_vars

\* C33: in every reachable state every group has size at most its capacity.
C33_SizeWithinCapacity ==
    \A i \in DOMAIN groups : groups[i].size <= groups[i].capacity

\* C34: a transaction that returns an error value (the status signal
\* SignatureRewardVerifiedSuccessfully included) leaves nodes, groups,
\* rewards, pending signature tasks, verifiable rewards, coordinators,
\* last_output, signature_count and last_group_index as they were.
C34_ErrorsChangeNothing ==
    [][(result'.op # "none" /\ result'.ret # "Ok") =>
          UNCHANGED <<nodes, groups, rewards, pending_signature_tasks,
                      verifiable_signature_rewards, coordinators, last_output,
                      signature_count, last_group_index>>]_vars

\* C35: challenge_verifiable_reward never slashes a committer or credits a
\* challenger for a reward whose expiration_block_height is lower than the
\* current block height: a step that takes such a reward out of the
\* verifiable rewards changes no stake and no reward balance.
C35_NoChallengeAfterExpiration ==
    [][\A signature_index \in DOMAIN verifiable_signature_rewards :
          LET signature_reward == verifiable_signature_rewards[signature_index]
          IN  (/\ signature_reward.expiration_block_height < block_height
               /\ signature_index \notin DOMAIN verifiable_signature_rewards') =>
                  /\ rewards' = rewards
                  /\ nodes'[signature_reward.committer].staking =
                         nodes[signature_reward.committer].staking]_vars

\* C36: after any transaction, for every group that received a group event
\* in it (its epoch has grown), emit_dkg_task yields a DKGTask with that
\* group's index and new epoch.
C36_EventGroups ==
    {i \in DOMAIN groups' :
        groups'[i].epoch > (IF i \in DOMAIN groups THEN groups[i].epoch ELSE 0)}

C36_TaskForEveryEventGroup ==
    [][\A i \in C36_EventGroups :
          /\ dkg_task' # None
          /\ dkg_task'[1].group_index = i
          /\ dkg_task'[1].epoch = groups'[i].epoch]_vars

\* ------------------------------------------------------------ coordinator server
\* Coordinator::publish(caller, bytes): the possible results [c, ret]. The
\* bytes are appended to the board of the current phase.
CoordinatorPublish(c, id_address, value) ==
    LET phase == CoordinatorPhase(c)
    IN  IF id_address \notin c.participants
        THEN [c |-> c, ret |-> "NotRegistered"]
        ELSE IF phase = 4
        THEN [c |-> c, ret |-> "DKGEnded"]
        ELSE IF phase = 1
        THEN IF id_address \in DOMAIN c.shares
             THEN [c |-> c, ret |-> "SharesExisted"]
             ELSE [c |-> [c EXCEPT !.shares = MapPut(@, id_address, value)], ret |-> "Ok"]
        ELSE IF phase = 2
        THEN IF id_address \in DOMAIN c.responses
             THEN [c |-> c, ret |-> "ResponsesExisted"]
             ELSE [c |-> [c EXCEPT !.responses = MapPut(@, id_address, value)], ret |-> "Ok"]
        ELSE IF id_address \in DOMAIN c.justifications
             THEN [c |-> c, ret |-> "JustificationsExisted"]
             ELSE [c |-> [c EXCEPT !.justifications = MapPut(@, id_address, value)],
                   ret |-> "Ok"]

\* What a participant publishes in a round: data made for the group and the
\* epoch of its DKG task.
RoundData(id_address, group_index, group_epoch) ==
    [id_address |-> id_address, group_index |-> group_index, epoch |-> group_epoch]

\* MockCoordinator::check_coordinator_index_and_epoch returns Ok, under the
\* read lock it takes and releases.
check_coordinator_index_and_epoch(req_index, req_epoch) ==
    /\ req_index \in DOMAIN coordinators
    /\ coordinators[req_index].epoch = req_epoch

\* The first half of MockCoordinator::publish: the check, which either
\* rejects the request with a Status or lets the handler go on to the write
\* lock. Handlers run on the worker threads of the server, so transactions
\* of other requests may take the write lock before this one does.
PublishCheck(id_address, req_index, req_epoch) ==
    LET req == [id_address |-> id_address, index |-> req_index, epoch |-> req_epoch,
                value |-> RoundData(id_address, req_index, req_epoch)]
    IN  /\ ~panicked
        /\ req \notin publish_requests
        /\ publish_requests' =
               IF check_coordinator_index_and_epoch(req_index, req_epoch)
               THEN publish_requests \cup {req}
               ELSE publish_requests
        /\ result' = IF check_coordinator_index_and_epoch(req_index, req_epoch)
                     THEN NoResult
                     ELSE [op |-> "publish", args |-> <<id_address, req_index, req_epoch>>,
                           ret |-> IF req_index \in DOMAIN coordinators
                                   THEN "CoordinatorEpochObsolete"
                                   ELSE "CoordinatorNotExisted"]
        /\ UNCHANGED <<block_height, epoch, signature_count, last_output,
                       last_group_index, groups, nodes, rewards,
                       pending_signature_tasks, verifiable_signature_rewards,
                       dkg_task, signature_task, coordinators, observed,
                       panicked, adapter>>
        /\ UNCHANGED node_vars

\* The second half of MockCoordinator::publish, under the write lock:
\* coordinators.get_mut(&req_index).unwrap().1.publish(id_address, value).
\* The unwrap panics when the group has no Coordinator any more.
PublishWrite(req) ==
    /\ ~panicked
    /\ req \in publish_requests
    /\ publish_requests' = publish_requests \ {req}
    /\ IF req.index \notin DOMAIN coordinators
       THEN /\ panicked' = TRUE
            /\ result' = NoResult
            /\ UNCHANGED coordinators
       ELSE LET r == CoordinatorPublish(coordinators[req.index], req.id_address, req.value)
            IN  /\ coordinators' = [coordinators EXCEPT ![req.index] = r.c]
                /\ result' = [op |-> "publish",
                              args |-> <<req.id_address, req.index, req.epoch>>,
                              ret |-> r.ret]
                /\ UNCHANGED panicked
    /\ UNCHANGED <<block_height, epoch, signature_count, last_output,
                   last_group_index, groups, nodes, rewards,
                   pending_signature_tasks, verifiable_signature_rewards,
                   dkg_task, signature_task, observed, adapter>>
    /\ UNCHANGED node_vars

\* NumPublishNodes nodes register one after the other, blocks are mined a
\* phase at a time and check_dkg_state is called, while the members of a
\* group publish to its Coordinator with the index and the epoch of the
\* group's round or of the round before.
PublishNodes == 1..NumPublishNodes

PublishRegister ==
    /\ RegisterInOrder(PublishNodes)
    /\ UNCHANGED publish_requests

PublishMine ==
    /\ coordinators # EmptyMap
    /\ MineUpTo(DEFAULT_DKG_PHASE_DURATION + 1, MaxPublishHeight)

PublishCheckDkgState ==
    \E id \in DOMAIN nodes, i \in DOMAIN groups : check_dkg_state(id, i)

PublishRequestCheck ==
    \E i \in DOMAIN groups :
        \E id \in DOMAIN groups[i].members, req_epoch \in {groups[i].epoch - 1, groups[i].epoch} :
            /\ req_epoch > 0
            /\ Cardinality(publish_requests) < MaxPublishRequests
            /\ PublishCheck(id, i, req_epoch)

PublishRequestWrite ==
    \E req \in publish_requests : PublishWrite(req)

NextPublish ==
    \/ PublishRegister
    \/ PublishMine
    \/ PublishCheckDkgState
    \/ PublishRequestCheck
    \/ PublishRequestWrite

SpecPublish == Init /\ [][NextPublish]_vars

\* C37: a publish request with metadata (group_index, epoch) is appended
\* only to a Coordinator whose epoch is the request's epoch, and is rejected
\* with an error value otherwise: every entry of a Coordinator's boards is
\* data of that Coordinator's round, and no request ends in a panic.
C37_Boards(c) == {c.shares, c.responses, c.justifications}

C37_PublishOnlyToRequestedEpoch ==
    /\ ~panicked
    /\ \A i \in DOMAIN coordinators :
           \A board \in C37_Boards(coordinators[i]) :
               \A id_address \in DOMAIN board :
                   /\ board[id_address].group_index = i
                   /\ board[id_address].epoch = coordinators[i].epoch

\* ------------------------------------------------------------ committer server
\* NumGroupingNodes nodes register one after the other before the first
\* block is mined. The processes of the first NumRunningNodes nodes run
\* their listeners and their committer server, whose handlers run side by
\* side; the other nodes commit the honest output of the DKG once each and
\* send their partial signatures of the pending signature tasks. A user
\* requests randomness MaxCommitterTasks times. The runs end at block
\* MaxCommitterHeight. No node leaves, so no listener is aborted.
CommitterRegister ==
    /\ \E id \in GroupingNodes \ DOMAIN nodes :
           /\ \A other \in GroupingNodes : other < id => other \in DOMAIN nodes
           /\ node_register(id)
    /\ UNCHANGED node_vars

CommitterCommitDkg ==
    /\ \E call \in CommitDkgCalls(OtherNodes, {HonestCommit}) :
           /\ call[1] \in DOMAIN groups[call[2]].members
           /\ call[1] \notin DOMAIN groups[call[2]].commit_cache
           /\ commit_dkg(call[1], call[2], call[3], call[4], call[5], call[6])
    /\ UNCHANGED node_vars

CommitterBlockListener(n) ==
    /\ GroupingNodes \subseteq DOMAIN nodes
    /\ block_height < MaxCommitterHeight
    /\ MockBlockListener(n)

CommitterRequestRandomness ==
    /\ signature_count < MaxCommitterTasks
    /\ request_randomness("m")
    /\ UNCHANGED node_vars

\* A member that has not been answered yet sends its partial signature of
\* a pending task.
CommitterRequestArrives ==
    \E n \in RunningNodes, m \in OtherNodes \cap DOMAIN nodes, task \in Range(pending_signature_tasks) :
        /\ Cardinality(listeners[n].commit_requests) < MaxCommitRequests
        /\ \A req \in listeners[n].commit_requests : req.id_address # m
        /\ CommitPartialSignatureCheck(n, m, task.message, task.index,
                                       partial_sign(m, task.message))

CommitterRequestAdd ==
    \E n \in RunningNodes : \E req \in listeners[n].commit_requests :
        CommitPartialSignatureAdd(n, req)

CommitterRequestInsert ==
    \E n \in RunningNodes : \E req \in listeners[n].commit_requests :
        CommitPartialSignatureInsert(n, req)

NextCommitter ==
    \/ CommitterRegister
    \/ CommitterCommitDkg
    \/ CommitterRequestRandomness
    \/ CommitterRequestArrives
    \/ CommitterRequestAdd
    \/ CommitterRequestInsert
    \/ \E n \in RunningNodes : CommitterBlockListener(n)
    \/ \E n \in RunningNodes : StartingGroupingReceive(n)
    \/ \E n \in RunningNodes : StartingGroupingHandleOk(n)
    \/ \E n \in RunningNodes : StartingGroupingHandleErr(n)
    \/ \E n \in RunningNodes : GroupingPoll(n)
    \/ \E n \in RunningNodes : BLSTaskReceive(n)
    \/ \E n \in RunningNodes : AggregationSnapshot(n)
    \/ \E n \in RunningNodes : AggregationCheck(n)
    \/ \E n \in RunningNodes : AggregationFulfill(n)

SpecCommitter == InitAggregation /\ [][NextCommitter]_vars

\* C38: a partial signature that the committer server accepted with
\* success, or that the BLSTaskListener put into the committer cache, stays
\* in the entry of its signature index for as long as the cache holds an
\* entry of that index: no step takes the partial signature of a member
\* out of an entry that the step leaves in the cache.
C38_PartialsStayInEntry ==
    [][\A n \in DOMAIN committer_cache :
          \A signature_index \in DOMAIN committer_cache[n] \cap DOMAIN committer_cache'[n] :
              \A m \in DOMAIN committer_cache[n][signature_index].partial_signatures :
                  m \in DOMAIN committer_cache'[n][signature_index].partial_signatures]_vars

\* ------------------------------------------------------------ signature tasks
\* NumTaskNodes nodes register one after the other: the first three before
\* the first block is mined, the others once group 1 is ready, so that they
\* form group 2. The processes of the first NumRunningNodes nodes run their
\* listeners; the other nodes commit the honest output of the DKG in the
\* order of their addresses. A user mines the first phase of the DKG at
\* once and later a block more than the exclusive window of a signature
\* task, and the block listener mines one block after each, up to
\* MaxTaskHeight. Once both groups are ready a user requests randomness up
\* to MaxTaskRequests times. No partial signature of another node arrives, so no entry of the
\* committer cache gets ready for aggregation.
TaskNodes == 1..NumTaskNodes

TaskRegister ==
    /\ \E id \in TaskNodes \ DOMAIN nodes :
           /\ \A other \in TaskNodes : other < id => other \in DOMAIN nodes
           /\ id > NumGroupingNodes =>
                  /\ groups[1].state
                  /\ \A n \in RunningNodes : listeners[n].bls_task
           /\ node_register(id)
    /\ UNCHANGED node_vars

TaskCommitDkg ==
    /\ \E call \in CommitDkgCalls(TaskNodes \ RunningNodes, {HonestCommit}) :
           /\ call[1] \in DOMAIN groups[call[2]].members \ DOMAIN groups[call[2]].commit_cache
           /\ \A other \in DOMAIN groups[call[2]].members \ RunningNodes :
                  other < call[1] => other \in DOMAIN groups[call[2]].commit_cache
           /\ commit_dkg(call[1], call[2], call[3], call[4], call[5], call[6])
    /\ UNCHANGED node_vars

TaskMine ==
    /\ GroupingNodes \subseteq DOMAIN nodes
    /\ IF block_height = INITIAL_BLOCK_HEIGHT
       THEN MineUpTo(DEFAULT_DKG_PHASE_DURATION, MaxTaskHeight)
       ELSE MineUpTo(SIGNATURE_TASK_EXCLUSIVE_WINDOW + 1, MaxTaskHeight)
    /\ UNCHANGED node_vars

\* The block listener takes its turn when the user has mined.
TaskBlockListener(n) ==
    /\ block_cache[n] # block_height
    /\ block_height > INITIAL_BLOCK_HEIGHT
    /\ block_height < MaxTaskHeight
    /\ MockBlockListener(n)

TaskRequestRandomness ==
    /\ signature_count < MaxTaskRequests
    /\ Cardinality(ReadyGroups) = 2
    /\ request_randomness("m")
    /\ UNCHANGED node_vars

NextTasks ==
    \/ TaskRegister
    \/ TaskCommitDkg
    \/ TaskMine
    \/ TaskRequestRandomness
    \/ \E n \in RunningNodes : TaskBlockListener(n)
    \/ \E n \in RunningNodes : StartingGroupingReceive(n)
    \/ \E n \in RunningNodes : StartingGroupingHandleOk(n)
    \/ \E n \in RunningNodes : StartingGroupingHandleErr(n)
    \/ \E n \in RunningNodes : GroupingPoll(n)
    \/ \E n \in RunningNodes : GroupingTimeout(n)
    \/ \E n \in RunningNodes : BLSTaskReceive(n)

SpecTasks == InitAggregation /\ [][NextTasks]_vars

\* Every task of a running node is scheduled again and again; the other
\* nodes, the user and the network owe nothing.
FairTasks ==
    \A n \in RunningNodes :
        /\ WF_vars(TaskBlockListener(n))
        /\ WF_vars(StartingGroupingReceive(n))
        /\ WF_vars(StartingGroupingHandleOk(n) \/ StartingGroupingHandleErr(n))
        /\ WF_vars(GroupingPoll(n))
        /\ WF_vars(GroupingTimeout(n))
        /\ WF_vars(BLSTaskReceive(n))

SpecTasksFair == SpecTasks /\ FairTasks

\* The message of the signature task of index signature_index.
C39_MessageOf(signature_index) ==
    (CHOOSE task \in KnownTasks : task.index = signature_index).message

\* C39: the partial signature that the BLSTaskListener of a node put into
\* its committer cache under a signature index is a signature of the
\* message of the task of that index.
C39_OwnPartialUnderIndexOfSignedTask ==
    \A n \in DOMAIN committer_cache :
        \A signature_index \in DOMAIN committer_cache[n] :
            n \in DOMAIN committer_cache[n][signature_index].partial_signatures =>
                committer_cache[n][signature_index].partial_signatures[n].message =
                    C39_MessageOf(signature_index)

\* The positions of the queue of node n that hold a task of another group
\* which the node has not signed, with the block cache beyond the exclusive
\* window of the task.
C40_Overdue(n) ==
    {i \in DOMAIN bls_tasks_cache[n] :
        /\ ~bls_tasks_cache[n][i].handled
        /\ bls_tasks_cache[n][i].task.group_index # group_cache[n].index
        /\ block_cache[n] >
               bls_tasks_cache[n][i].task.assignment_block_height
                   + SIGNATURE_TASK_EXCLUSIVE_WINDOW}

\* C40: a task of another group in the queue of a node whose BLSTaskListener
\* runs is eventually yielded and signed once the block cache is beyond the
\* task's exclusive window, whether or not another task is emitted.
C40_OverdueTaskEventuallySigned ==
    \A n \in RunningNodes : \A i \in 1..MaxTaskRequests :
        (listeners[n].bls_task /\ i \in C40_Overdue(n))
            ~> \/ ~listeners[n].bls_task
               \/ i \in DOMAIN bls_tasks_cache[n] /\ bls_tasks_cache[n][i].handled

\* The half of C40 that holds: a task that was yielded is not yielded
\* again, its position stays marked.
C40_YieldedOnce ==
    [][\A n \in DOMAIN bls_tasks_cache : \A i \in DOMAIN bls_tasks_cache[n] :
          bls_tasks_cache[n][i].handled =>
              /\ i \in DOMAIN bls_tasks_cache'[n]
              /\ bls_tasks_cache'[n][i] = bls_tasks_cache[n][i]]_vars

====
